---- MODULE Spec2Model ----
(***************************************************************************)
(* Shared-memory IPC substrate of crates/shm: the Price Store guarded by   *)
(* the SeqLock protocol (price_store.rs, seqlock.rs), the SPSC Event Ring  *)
(* Buffer (ring_buffer.rs) and the Update Bitmap (bitmap.rs).              *)
(*                                                                         *)
(* Every atomic load/store and every volatile read/write of the source is  *)
(* one action, so that TLC explores every interleaving of the processes'   *)
(* individual memory accesses (sequentially consistent interleaving).      *)
(* f64 prices are modelled by integers standing for their bit patterns:    *)
(* the code only copies them.                                              *)
(***************************************************************************)
EXTENDS Integers, Sequences, FiniteSets, TLC

(***************************************************************************)
(* Program constants                                                       *)
(***************************************************************************)
NUM_SOURCES == 8
MAX_SYMBOLS == 1024
HEADER_SIZE == 64
ENTRY_SIZE == 64
MAX_READ_RETRIES == 4

(***************************************************************************)
(* Bounds of the model                                                     *)
(***************************************************************************)
\* number of PriceStore::write calls the feed makes
MaxWrites == 3

\* number of the feed's stores that can be pending at once
MaxBuffered == 3

\* largest magnitude of the finite f64 inputs of is_valid
MaxMag == 2

\* number of files that can exist at once (named, or unlinked and still mapped)
MaxInodes == 2

\* the (symbol_id, source_id) pairs the processes use as inputs
Slots ==
    { <<0, 0>>, <<0, NUM_SOURCES - 1>>, <<MAX_SYMBOLS - 1, NUM_SOURCES - 1>> }
\* the reader processes
Readers == {1}
\* the slots the feed publishes through the bitmap: first and last word
PubSlots == { <<0, NUM_SOURCES - 1>>, <<MAX_SYMBOLS - 1, NUM_SOURCES - 1>> }
\* the snapshot of the feed's i-th write, as the writer of
\* test_concurrent_no_torn_reads builds it: ask = bid + 1, all writes differ
MakeSnapshot(i) ==
    [best_bid |-> i * 1000, best_ask |-> i * 1000 + 1, updated_at |-> i]

VARIABLES
    seqs,     \* sequence segment: slot offset -> PriceSeqEntry.seq
    data,     \* data segment: slot offset -> PriceDataEntry
    w,        \* the feed inside PriceStore::write / seqlock_write
    nwrites,  \* number of write calls started
    rd,       \* each reader inside PriceStore::read / seqlock_read
    gh        \* history: what was written, and what each read overlapped

storeVars == <<seqs, data, w, nwrites, rd, gh>>

VARIABLES
    ring,     \* the segment: producer.seq, consumer.seq, entries by offset
    p,        \* the producer inside RingBuffer::push
    c,        \* the consumer inside RingBuffer::pop
    npush,    \* number of push calls started
    rgh       \* history: events pushed and popped, state at each check

ringVars == <<ring, p, c, npush, rgh>>

VARIABLES
    bitmap,   \* the segment: word offset -> AtomicU64, as the set of its 1 bits
    hu,       \* the consumer inside UpdateBitmap::has_updates
    bgh       \* history: the last bitmap call, pending and published updates

bitmapVars == <<bitmap, hu, bgh>>

VARIABLES
    ctl,      \* the segment: ControlLayout's three flags and config_version
    ss,       \* a process inside ControlStore::should_stop
    cgh       \* history: values returned by config_version and the increments

controlVars == <<ctl, ss, cgh>>

VARIABLES
    health,   \* the segment: slot offset -> HealthSlot
    hr,       \* a process inside HealthTable::read
    hgh       \* history: writer calls made, slots written, last conversion

healthVars == <<health, hr, hgh>>

VARIABLES
    shm,      \* /dev/shm: name -> file, file -> its length and bytes
    sp,       \* each process inside create_shm, open_shm or remove_shm
    hs,       \* the mappings each process holds
    sgh       \* history: what was stored under a name, what a call observed

shmVars == <<shm, sp, hs, sgh>>

VARIABLES
    ps,       \* each process inside PriceStore::create or PriceStore::open
    pgh       \* history: who created each segment, what an open started from

openVars == <<ps, pgh>>

VARIABLES
    wb        \* the feed's stores that are issued and not yet visible to others

weakVars == <<wb>>

VARIABLES
    iv        \* a call of PriceSnapshot::is_valid: its argument and result

validVars == <<iv>>

VARIABLES
    addr      \* PriceStore::slot_offset applied to two slots: arguments, results

addrVars == <<addr>>

VARIABLES
    w2,       \* a second feed inside PriceStore::write / seqlock_write
    gh2,      \* history: the write calls the second feed made, the last it completed
    hdr       \* the ShmHeader of either Price Store segment

feedVars == <<w2, gh2, hdr>>

VARIABLES
    ln,       \* a process inside RingBuffer::len / is_empty
    nlen      \* number of len calls started

lenVars == <<ln, nlen>>

VARIABLES
    sq        \* the last PriceStore::read_seq call: slot, value returned, history

seqVars == <<sq>>

vars ==
    <<storeVars, ringVars, bitmapVars, controlVars, healthVars, shmVars, openVars,
      weakVars, validVars, addrVars, feedVars, lenVars, seqVars>>

\* what an operation of one component leaves alone
OutsideStore == <<ringVars, bitmapVars, controlVars, healthVars, shmVars,
    openVars, weakVars, validVars, addrVars, feedVars, lenVars, seqVars>>
OutsideRing == <<storeVars, bitmapVars, controlVars, healthVars, shmVars,
    openVars, weakVars, validVars, addrVars, feedVars, lenVars, seqVars>>
OutsideBitmap == <<storeVars, ringVars, controlVars, healthVars, shmVars,
    openVars, weakVars, validVars, addrVars, feedVars, lenVars, seqVars>>
OutsideControl == <<storeVars, ringVars, bitmapVars, healthVars, shmVars,
    openVars, weakVars, validVars, addrVars, feedVars, lenVars, seqVars>>
OutsideHealth == <<storeVars, ringVars, bitmapVars, controlVars, shmVars,
    openVars, weakVars, validVars, addrVars, feedVars, lenVars, seqVars>>
OutsidePrice ==
    <<storeVars, ringVars, bitmapVars, controlVars, healthVars, weakVars,
      validVars, addrVars, feedVars, lenVars, seqVars>>
OutsideWeak ==
    <<ringVars, bitmapVars, controlVars, healthVars, shmVars, openVars,
      validVars, addrVars, feedVars, lenVars, seqVars>>
OutsideShm == <<OutsidePrice, openVars>>
OutsideValid ==
    <<storeVars, ringVars, bitmapVars, controlVars, healthVars, shmVars, openVars,
      weakVars, addrVars, feedVars, lenVars, seqVars>>
OutsideSeq ==
    <<storeVars, ringVars, bitmapVars, controlVars, healthVars,
      shmVars, openVars, weakVars, validVars, addrVars, feedVars, lenVars>>
OutsideLen ==
    <<storeVars, ringVars, bitmapVars, controlVars, healthVars,
      shmVars, openVars, weakVars, validVars, addrVars, feedVars, seqVars>>
OutsideFeed ==
    <<storeVars, ringVars, bitmapVars, controlVars, healthVars,
      shmVars, openVars, weakVars, validVars, addrVars, lenVars, seqVars>>
OutsideFeedStore ==
    <<ringVars, bitmapVars, controlVars, healthVars, shmVars, openVars,
      weakVars, validVars, addrVars, lenVars, seqVars>>
OutsideAddr ==
    <<storeVars, ringVars, bitmapVars, controlVars, healthVars,
      shmVars, openVars, weakVars, validVars, feedVars, lenVars, seqVars>>

(***************************************************************************)
(* Price Store layout                                                      *)
(***************************************************************************)
\* a zero-filled PriceDataEntry, and PriceSnapshot values
ZeroSnap == [best_bid |-> 0, best_ask |-> 0, updated_at |-> 0]

None == [some |-> FALSE, snap |-> ZeroSnap]
Some(s) == [some |-> TRUE, snap |-> s]

\* slot_offset without the source term: the slots of one symbol collide
slot_offset_no_source(symbol_id, source_id) ==
    HEADER_SIZE + (symbol_id * NUM_SOURCES) * ENTRY_SIZE

slot_offset(symbol_id, source_id) ==
    HEADER_SIZE + (symbol_id * NUM_SOURCES + source_id) * ENTRY_SIZE

SlotOffsets == { slot_offset(sl[1], sl[2]) : sl \in Slots }

IsOdd(s) == s % 2 /= 0

(***************************************************************************)
(* Initial state: both segments as create_shm leaves them (all zero), no   *)
(* call in progress.                                                       *)
(***************************************************************************)
WriterIdle ==
    [pc |-> "idle", symbol_id |-> 0, source_id |-> 0, current |-> 0,
     snapshot |-> ZeroSnap]

ReaderIdle ==
    [pc |-> "idle", symbol_id |-> 0, source_id |-> 0, i |-> 0, s1 |-> 0,
     bid |-> 0, ask |-> 0, ts |-> 0, result |-> None]

GhostReaderInit ==
    [disturbed |-> FALSE, quiet |-> FALSE, startEven |-> FALSE,
     expect |-> ZeroSnap, steps |-> 0, oddAttempts |-> 0, misAttempts |-> 0]

PriceStoreInit ==
    /\ seqs = [o \in SlotOffsets |-> 0]
    /\ data = [o \in SlotOffsets |-> ZeroSnap]
    /\ w = WriterIdle
    /\ nwrites = 0
    /\ rd = [r \in Readers |-> ReaderIdle]
    /\ gh = [written |-> [sl \in Slots |-> {ZeroSnap}],
             started |-> {},
             last |-> [sl \in Slots |-> ZeroSnap],
             r |-> [r \in Readers |-> GhostReaderInit]]

WOff == slot_offset(w.symbol_id, w.source_id)
ROff(r) == slot_offset(rd[r].symbol_id, rd[r].source_id)

\* history: a step of the feed's write call touches the slot at offset WOff;
\* every read in progress on the same entry has been overlapped by it
Disturb(g) ==
    [g EXCEPT !.r = [r \in Readers |->
        IF rd[r].pc \notin {"idle", "done"} /\ ROff(r) = WOff
        THEN [g.r[r] EXCEPT !.disturbed = TRUE]
        ELSE g.r[r]]]

(***************************************************************************)
(* PriceStore::write -> seqlock_write, one action per memory access        *)
(***************************************************************************)
\* write(symbol_id, source_id, snapshot) is called;
\* let current = seq.seq.load(Relaxed)
WriteLoadCurrent(symbol_id, source_id, snapshot) ==
    /\ w.pc = "idle"
    /\ nwrites < MaxWrites
    /\ w' = [pc |-> "store_odd", symbol_id |-> symbol_id,
             source_id |-> source_id,
             current |-> seqs[slot_offset(symbol_id, source_id)],
             snapshot |-> snapshot]
    /\ nwrites' = nwrites + 1
    /\ gh' = [gh EXCEPT
                !.written[<<symbol_id, source_id>>] = @ \cup {snapshot},
                !.started = @ \cup {<<symbol_id, source_id>>},
                !.r = [r \in Readers |->
                    IF rd[r].pc \notin {"idle", "done"}
                       /\ ROff(r) = slot_offset(symbol_id, source_id)
                    THEN [gh.r[r] EXCEPT !.disturbed = TRUE]
                    ELSE gh.r[r]]]
    /\ UNCHANGED <<seqs, data, rd, OutsideStore>>

\* seqlock_write without its first store: the write is never announced
WriteStoreOdd_skipped ==
    /\ w.pc = "store_odd"
    /\ w' = [w EXCEPT !.pc = "write_bid"]
    /\ gh' = Disturb(gh)
    /\ UNCHANGED <<seqs, data, nwrites, rd, OutsideStore>>

\* seq.seq.store(current + 1, Release)
WriteStoreOdd ==
    /\ w.pc = "store_odd"
    /\ seqs' = [seqs EXCEPT ![WOff] = w.current + 1]
    /\ w' = [w EXCEPT !.pc = "write_bid"]
    /\ gh' = Disturb(gh)
    /\ UNCHANGED <<data, nwrites, rd, OutsideStore>>

\* the bid stored into the first slot of the segment, whatever slot was given
WriteBid_first_slot ==
    /\ w.pc = "write_bid"
    /\ data' = [data EXCEPT ![HEADER_SIZE].best_bid = w.snapshot.best_bid]
    /\ w' = [w EXCEPT !.pc = "write_ask"]
    /\ gh' = Disturb(gh)
    /\ UNCHANGED <<seqs, nwrites, rd, OutsideStore>>

\* write_volatile(&mut data.best_bid, snapshot.best_bid)
WriteBid ==
    /\ w.pc = "write_bid"
    /\ data' = [data EXCEPT ![WOff].best_bid = w.snapshot.best_bid]
    /\ w' = [w EXCEPT !.pc = "write_ask"]
    /\ gh' = Disturb(gh)
    /\ UNCHANGED <<seqs, nwrites, rd, OutsideStore>>

\* the ask store with the bid copied into it
WriteAsk_copies_bid ==
    /\ w.pc = "write_ask"
    /\ data' = [data EXCEPT ![WOff].best_ask = w.snapshot.best_bid]
    /\ w' = [w EXCEPT !.pc = "write_ts"]
    /\ gh' = Disturb(gh)
    /\ UNCHANGED <<seqs, nwrites, rd, OutsideStore>>

\* write_volatile(&mut data.best_ask, snapshot.best_ask)
WriteAsk ==
    /\ w.pc = "write_ask"
    /\ data' = [data EXCEPT ![WOff].best_ask = w.snapshot.best_ask]
    /\ w' = [w EXCEPT !.pc = "write_ts"]
    /\ gh' = Disturb(gh)
    /\ UNCHANGED <<seqs, nwrites, rd, OutsideStore>>

\* write_volatile(&mut data.updated_at, snapshot.updated_at)
WriteUpdatedAt ==
    /\ w.pc = "write_ts"
    /\ data' = [data EXCEPT ![WOff].updated_at = w.snapshot.updated_at]
    /\ w' = [w EXCEPT !.pc = "store_even"]
    /\ gh' = Disturb(gh)
    /\ UNCHANGED <<seqs, nwrites, rd, OutsideStore>>

\* a final store that repeats the first: the counter stays odd
WriteStoreEven_stays_odd ==
    /\ w.pc = "store_even"
    /\ seqs' = [seqs EXCEPT ![WOff] = w.current + 1]
    /\ w' = WriterIdle
    /\ gh' = [Disturb(gh) EXCEPT
                !.last[<<w.symbol_id, w.source_id>>] = w.snapshot]
    /\ UNCHANGED <<data, nwrites, rd, OutsideStore>>

\* fence(Release); seq.seq.store(current + 2, Release); the call returns
WriteStoreEven ==
    /\ w.pc = "store_even"
    /\ seqs' = [seqs EXCEPT ![WOff] = w.current + 2]
    /\ w' = WriterIdle
    /\ gh' = [Disturb(gh) EXCEPT
                !.last[<<w.symbol_id, w.source_id>>] = w.snapshot]
    /\ UNCHANGED <<data, nwrites, rd, OutsideStore>>

(***************************************************************************)
(* PriceStore::read -> seqlock_read, one action per memory access          *)
(***************************************************************************)
\* the end of one pass of `for _ in 0..MAX_READ_RETRIES`: the next pass, or
\* the loop is exhausted and the function returns None
\* a retry loop that never counts its passes
NextAttempt_unbounded(st) == [st EXCEPT !.pc = "load_s1"]

NextAttempt(st) ==
    IF st.i + 1 < MAX_READ_RETRIES
    THEN [st EXCEPT !.i = st.i + 1, !.pc = "load_s1"]
    ELSE [st EXCEPT !.i = st.i + 1, !.pc = "done", !.result = None]

\* read(symbol_id, source_id) is called: seq_entry, data_entry
ReadCall(r, symbol_id, source_id) ==
    /\ rd[r].pc = "idle"
    /\ rd' = [rd EXCEPT ![r] = [ReaderIdle EXCEPT
                !.pc = "load_s1", !.symbol_id = symbol_id,
                !.source_id = source_id]]
    /\ gh' = [gh EXCEPT ![
                "r"][r] = [GhostReaderInit EXCEPT
                    !.quiet = (w.pc = "idle"
                               \/ <<w.symbol_id, w.source_id>>
                                    /= <<symbol_id, source_id>>),
                    !.startEven =
                        ~IsOdd(seqs[slot_offset(symbol_id, source_id)]),
                    !.expect = gh.last[<<symbol_id, source_id>>]]]
    /\ UNCHANGED <<seqs, data, w, nwrites, OutsideStore>>

\* the parity test inverted: an even sequence value is taken for a write
ReadLoadS1_inverted(r) ==
    /\ rd[r].pc = "load_s1"
    /\ LET s1 == seqs[ROff(r)]
           st == [rd[r] EXCEPT !.s1 = s1]
       IN  /\ rd' = [rd EXCEPT ![r] =
                       IF ~IsOdd(s1) THEN NextAttempt(st)
                       ELSE [st EXCEPT !.pc = "read_bid"]]
           /\ gh' = [gh EXCEPT !["r"][r].steps = @ + 1,
                               !["r"][r].oddAttempts =
                                    IF ~IsOdd(s1) THEN @ + 1 ELSE @]
    /\ UNCHANGED <<seqs, data, w, nwrites, OutsideStore>>

\* let s1 = seq.seq.load(Acquire); if s1 & 1 != 0 { spin_loop(); continue; }
ReadLoadS1(r) ==
    /\ rd[r].pc = "load_s1"
    /\ LET s1 == seqs[ROff(r)]
           st == [rd[r] EXCEPT !.s1 = s1]
       IN  /\ rd' = [rd EXCEPT ![r] =
                       IF IsOdd(s1) THEN NextAttempt(st)
                       ELSE [st EXCEPT !.pc = "read_bid"]]
           /\ gh' = [gh EXCEPT !["r"][r].steps = @ + 1,
                               !["r"][r].oddAttempts =
                                    IF IsOdd(s1) THEN @ + 1 ELSE @]
    /\ UNCHANGED <<seqs, data, w, nwrites, OutsideStore>>

\* fence(Acquire); let bid = read_volatile(&data.best_bid)
ReadBid(r) ==
    /\ rd[r].pc = "read_bid"
    /\ rd' = [rd EXCEPT ![r].bid = data[ROff(r)].best_bid,
                        ![r].pc = "read_ask"]
    /\ gh' = [gh EXCEPT !["r"][r].steps = @ + 1]
    /\ UNCHANGED <<seqs, data, w, nwrites, OutsideStore>>

\* let ask = read_volatile(&data.best_ask)
ReadAsk(r) ==
    /\ rd[r].pc = "read_ask"
    /\ rd' = [rd EXCEPT ![r].ask = data[ROff(r)].best_ask,
                        ![r].pc = "read_ts"]
    /\ gh' = [gh EXCEPT !["r"][r].steps = @ + 1]
    /\ UNCHANGED <<seqs, data, w, nwrites, OutsideStore>>

\* let ts = read_volatile(&data.updated_at)
ReadUpdatedAt(r) ==
    /\ rd[r].pc = "read_ts"
    /\ rd' = [rd EXCEPT ![r].ts = data[ROff(r)].updated_at,
                        ![r].pc = "load_s2"]
    /\ gh' = [gh EXCEPT !["r"][r].steps = @ + 1]
    /\ UNCHANGED <<seqs, data, w, nwrites, OutsideStore>>

\* the second load made but not compared: the attempt always returns Some
ReadLoadS2_unchecked(r) ==
    /\ rd[r].pc = "load_s2"
    /\ LET st == rd[r]
       IN  rd' = [rd EXCEPT ![r] =
                    [st EXCEPT !.pc = "done",
                               !.result = Some([best_bid |-> st.bid,
                                                best_ask |-> st.ask,
                                                updated_at |-> st.ts])]]
    /\ gh' = [gh EXCEPT !["r"][r].steps = @ + 1]
    /\ UNCHANGED <<seqs, data, w, nwrites, OutsideStore>>

\* fence(Acquire); let s2 = seq.seq.load(Acquire);
\* if s1 == s2 { return Some(PriceSnapshot {..}) }  spin_loop();
ReadLoadS2(r) ==
    /\ rd[r].pc = "load_s2"
    /\ LET s2 == seqs[ROff(r)]
           st == rd[r]
       IN  /\ rd' = [rd EXCEPT ![r] =
                       IF st.s1 = s2
                       THEN [st EXCEPT !.pc = "done",
                                !.result = Some([best_bid |-> st.bid,
                                                 best_ask |-> st.ask,
                                                 updated_at |-> st.ts])]
                       ELSE NextAttempt(st)]
           /\ gh' = [gh EXCEPT !["r"][r].steps = @ + 1,
                               !["r"][r].misAttempts =
                                    IF st.s1 = s2 THEN @ ELSE @ + 1]
    /\ UNCHANGED <<seqs, data, w, nwrites, OutsideStore>>

\* the caller takes the Option<PriceSnapshot>; the reader may call again
ReadReturn(r) ==
    /\ rd[r].pc = "done"
    /\ rd' = [rd EXCEPT ![r] = ReaderIdle]
    /\ gh' = [gh EXCEPT !["r"][r] = GhostReaderInit]
    /\ UNCHANGED <<seqs, data, w, nwrites, OutsideStore>>


(***************************************************************************)
(* Event Ring Buffer (ring_buffer.rs): one producer, one consumer          *)
(***************************************************************************)
\* CAPACITY is a power of two: 64 * 1024 = 2^16 in the source, 2^CapacityBits
\* here
CapacityBits == 2
\* number of push calls the producer makes
MaxPushCalls == 9

RECURSIVE Pow2(_)
Pow2(n) == IF n = 0 THEN 1 ELSE 2 * Pow2(n - 1)

\* a & b on unsigned integers
RECURSIVE BitAnd(_, _)
BitAnd(a, b) ==
    IF a = 0 \/ b = 0 THEN 0
    ELSE (a % 2) * (b % 2) + 2 * BitAnd(a \div 2, b \div 2)

CAPACITY == Pow2(CapacityBits)
MASK == CAPACITY - 1
RB_HEADER_SIZE == 128
EVENT_SIZE == 64

\* entry_ptr / entry_mut_ptr: byte offset of the slot of position `index`
entry_offset(index) == RB_HEADER_SIZE + BitAnd(index, MASK) * EVENT_SIZE

EntryOffsets == { RB_HEADER_SIZE + k * EVENT_SIZE : k \in 0..(CAPACITY - 1) }

\* the event of the tests' make_event(seq); a zero-filled slot
make_event(seq) == [timestamp |-> seq * 100, sequence |-> seq]
ZeroEvent == [timestamp |-> 0, sequence |-> 0]

NoEvent == [some |-> FALSE, event |-> ZeroEvent]
SomeEvent(e) == [some |-> TRUE, event |-> e]

ProducerIdle ==
    [pc |-> "idle", prod_seq |-> 0, cons_seq |-> 0, event |-> ZeroEvent,
     result |-> FALSE]

ConsumerIdle ==
    [pc |-> "idle", cons_seq |-> 0, prod_seq |-> 0, event |-> ZeroEvent,
     result |-> NoEvent]

RingInit ==
    /\ ring = [producer |-> 0, consumer |-> 0,
               entries |-> [o \in EntryOffsets |-> ZeroEvent]]
    /\ p = ProducerIdle
    /\ c = ConsumerIdle
    /\ npush = 0
    /\ rgh = [pushed |-> <<>>, popped |-> <<>>,
              pushPending |-> 0, popPending |-> 0,
              fromFull |-> FALSE, scn |-> 0, first |-> FALSE,
              second |-> FALSE, drained |-> 0]

\* history: a producer step ends the "undisturbed pop from a full buffer"
ProducerMoved(g) == [g EXCEPT !.fromFull = FALSE]
\* history: a consumer step other than the end of that pop ends the scenario
ConsumerMoved(g) == [g EXCEPT !.scn = 0]
\* history: a push returns `res`; the first and the second push that start
\* and end after an undisturbed pop from a full buffer are recorded
PushReturned(g, res) ==
    IF g.scn = 1 THEN [g EXCEPT !.scn = 2, !.first = res]
    ELSE IF g.scn = 2 THEN [g EXCEPT !.scn = 3, !.second = res]
    ELSE [g EXCEPT !.scn = 0]

\* history: the consumer position at which a pop last left the buffer empty
\* while a call of len was under way
Drained(g) ==
    IF ln.pc \in {"load_cons", "done"} /\ c.cons_seq + 1 = ring.producer
    THEN [g EXCEPT !.drained = c.cons_seq + 1] ELSE g

\* push(event) is called; let prod_seq = self.producer().seq.load(Relaxed)
PushLoadProd(event) ==
    /\ p.pc = "idle"
    /\ npush < MaxPushCalls
    /\ p' = [ProducerIdle EXCEPT !.pc = "load_cons",
                !.prod_seq = ring.producer, !.event = event]
    /\ npush' = npush + 1
    /\ rgh' = ProducerMoved(rgh)
    /\ UNCHANGED <<ring, c, OutsideRing>>

\* push(event) called by a producer that goes on calling for as long as it
\* has events: calls are not counted, and the event is the next one that has
\* not been pushed yet, so a push that returned false is made again
PushNext ==
    /\ p.pc = "idle"
    /\ Len(rgh.pushed) < MaxPushCalls
    /\ p' = [ProducerIdle EXCEPT !.pc = "load_cons",
                !.prod_seq = ring.producer,
                !.event = make_event(Len(rgh.pushed) + 1)]
    /\ rgh' = ProducerMoved(rgh)
    /\ UNCHANGED <<ring, c, npush, OutsideRing>>

\* the full test off by one: `>` for `>=`
PushLoadCons_gt ==
    /\ p.pc = "load_cons"
    /\ LET cons_seq == ring.consumer
           full == p.prod_seq - cons_seq > CAPACITY
           g == [ProducerMoved(rgh) EXCEPT
                    !.pushPending = ring.producer - ring.consumer]
       IN  /\ p' = [p EXCEPT !.cons_seq = cons_seq,
                        !.pc = IF full THEN "done" ELSE "write",
                        !.result = FALSE]
           /\ rgh' = IF full THEN PushReturned(g, FALSE) ELSE g
    /\ UNCHANGED <<ring, c, npush, OutsideRing>>

\* push that waits for room: on a full buffer it loads the position again
PushLoadCons_waits ==
    /\ p.pc = "load_cons"
    /\ LET cons_seq == ring.consumer
           full == p.prod_seq - cons_seq >= CAPACITY
       IN  p' = [p EXCEPT !.cons_seq = cons_seq,
                    !.pc = IF full THEN "load_cons" ELSE "write",
                    !.result = FALSE]
    /\ rgh' = [ProducerMoved(rgh) EXCEPT
                    !.pushPending = ring.producer - ring.consumer]
    /\ UNCHANGED <<ring, c, npush, OutsideRing>>

\* let cons_seq = self.consumer().seq.load(Acquire);
\* if prod_seq - cons_seq >= CAPACITY { return false; }
PushLoadCons ==
    /\ p.pc = "load_cons"
    /\ LET cons_seq == ring.consumer
           full == p.prod_seq - cons_seq >= CAPACITY
           g == [ProducerMoved(rgh) EXCEPT
                    !.pushPending = ring.producer - ring.consumer]
       IN  /\ p' = [p EXCEPT !.cons_seq = cons_seq,
                        !.pc = IF full THEN "done" ELSE "write",
                        !.result = FALSE]
           /\ rgh' = IF full THEN PushReturned(g, FALSE) ELSE g
    /\ UNCHANGED <<ring, c, npush, OutsideRing>>

\* push without the slot write: the position is advanced over a stale slot
PushWriteEntry_skipped ==
    /\ p.pc = "write"
    /\ p' = [p EXCEPT !.pc = "store"]
    /\ rgh' = ProducerMoved(rgh)
    /\ UNCHANGED <<ring, c, npush, OutsideRing>>

\* std::ptr::write(self.entry_mut_ptr(prod_seq), *event)
PushWriteEntry ==
    /\ p.pc = "write"
    /\ ring' = [ring EXCEPT !.entries[entry_offset(p.prod_seq)] = p.event]
    /\ p' = [p EXCEPT !.pc = "store"]
    /\ rgh' = ProducerMoved(rgh)
    /\ UNCHANGED <<c, npush, OutsideRing>>

\* push that never publishes: the slot is written and true is returned, but
\* the producer position stays where it was
PushStoreProd_not_published ==
    /\ p.pc = "store"
    /\ p' = [p EXCEPT !.pc = "done", !.result = TRUE]
    /\ rgh' = [PushReturned(ProducerMoved(rgh), TRUE) EXCEPT
                    !.pushed = Append(@, p.event)]
    /\ UNCHANGED <<ring, c, npush, OutsideRing>>

\* self.producer().seq.store(prod_seq + 1, Release); true
PushStoreProd ==
    /\ p.pc = "store"
    /\ ring' = [ring EXCEPT !.producer = p.prod_seq + 1]
    /\ p' = [p EXCEPT !.pc = "done", !.result = TRUE]
    /\ rgh' = [PushReturned(ProducerMoved(rgh), TRUE) EXCEPT
                    !.pushed = Append(@, p.event)]
    /\ UNCHANGED <<c, npush, OutsideRing>>

\* the caller takes the bool; the producer may call again
PushReturn ==
    /\ p.pc = "done"
    /\ p' = ProducerIdle
    /\ UNCHANGED <<ring, c, npush, rgh, OutsideRing>>

\* pop() is called; let cons_seq = self.consumer().seq.load(Relaxed)
PopLoadCons ==
    /\ c.pc = "idle"
    /\ c' = [ConsumerIdle EXCEPT !.pc = "load_prod",
                !.cons_seq = ring.consumer]
    /\ rgh' = [ConsumerMoved(rgh) EXCEPT
                !.fromFull = (p.pc = "idle"
                              /\ ring.producer - ring.consumer = CAPACITY)]
    /\ UNCHANGED <<ring, p, npush, OutsideRing>>

\* the empty test off by one: `>` for `>=`
PopLoadProd_gt ==
    /\ c.pc = "load_prod"
    /\ LET prod_seq == ring.producer
           empty == c.cons_seq > prod_seq
       IN  c' = [c EXCEPT !.prod_seq = prod_seq,
                    !.pc = IF empty THEN "done" ELSE "read",
                    !.result = NoEvent]
    /\ rgh' = [ConsumerMoved(rgh) EXCEPT
                !.popPending = ring.producer - ring.consumer]
    /\ UNCHANGED <<ring, p, npush, OutsideRing>>

\* let prod_seq = self.producer().seq.load(Acquire);
\* if cons_seq >= prod_seq { return None; }
PopLoadProd ==
    /\ c.pc = "load_prod"
    /\ LET prod_seq == ring.producer
           empty == c.cons_seq >= prod_seq
       IN  c' = [c EXCEPT !.prod_seq = prod_seq,
                    !.pc = IF empty THEN "done" ELSE "read",
                    !.result = NoEvent]
    /\ rgh' = [ConsumerMoved(rgh) EXCEPT
                !.popPending = ring.producer - ring.consumer]
    /\ UNCHANGED <<ring, p, npush, OutsideRing>>

\* let event = std::ptr::read(self.entry_ptr(cons_seq))
PopReadEntry ==
    /\ c.pc = "read"
    /\ c' = [c EXCEPT !.event = ring.entries[entry_offset(c.cons_seq)],
                      !.pc = "store"]
    /\ rgh' = ConsumerMoved(rgh)
    /\ UNCHANGED <<ring, p, npush, OutsideRing>>

\* pop that advances the consumer position by two
PopStoreCons_by_two ==
    /\ c.pc = "store"
    /\ ring' = [ring EXCEPT !.consumer = c.cons_seq + 2]
    /\ c' = [c EXCEPT !.pc = "done", !.result = SomeEvent(c.event)]
    /\ rgh' = Drained([rgh EXCEPT !.popped = Append(@, c.event),
                                  !.scn = IF rgh.fromFull THEN 1 ELSE 0])
    /\ UNCHANGED <<p, npush, OutsideRing>>

\* self.consumer().seq.store(cons_seq + 1, Release); Some(event)
PopStoreCons ==
    /\ c.pc = "store"
    /\ ring' = [ring EXCEPT !.consumer = c.cons_seq + 1]
    /\ c' = [c EXCEPT !.pc = "done", !.result = SomeEvent(c.event)]
    /\ rgh' = Drained([rgh EXCEPT !.popped = Append(@, c.event),
                                  !.scn = IF rgh.fromFull THEN 1 ELSE 0])
    /\ UNCHANGED <<p, npush, OutsideRing>>

\* the caller takes the Option<Event>; the consumer may call again
PopReturn ==
    /\ c.pc = "done"
    /\ c' = ConsumerIdle
    /\ UNCHANGED <<ring, p, npush, rgh, OutsideRing>>

(***************************************************************************)
(* Update Bitmap (bitmap.rs): NUM_SOURCES blocks of 16 AtomicU64 words.    *)
(* A word is modelled by the set of the positions of its 1 bits, so that   *)
(* 1u64 << b is {b}, fetch_or is set union and the value 0 is {}.          *)
(***************************************************************************)
BLOCK_SIZE == 128
WORD_BYTES == 8
WORD_BITS == 64
WORDS_PER_BLOCK == BLOCK_SIZE \div WORD_BYTES

\* the inputs of set and swap_word
BmSources == {0, NUM_SOURCES - 1}
BmSymbols == {0, 63, 64, MAX_SYMBOLS - 1}
BmWords == {0, 1, WORDS_PER_BLOCK - 1}
\* the inputs of set and swap_word while has_updates scans
ScanSymbols == {0, MAX_SYMBOLS - 1}
ScanWords == {0, WORDS_PER_BLOCK - 1}

\* UpdateBitmap::word: byte offset of word `word_idx` of the source's block
word(source_id, word_idx) == source_id * BLOCK_SIZE + word_idx * WORD_BYTES

WordOffsets ==
    { so * BLOCK_SIZE + wi * WORD_BYTES :
        so \in 0..(NUM_SOURCES - 1), wi \in 0..(WORDS_PER_BLOCK - 1) }

\* the consumer outside has_updates
ScanIdle ==
    [pc |-> "idle", source_id |-> 0, w |-> 0, ret |-> FALSE, disturbed |-> FALSE]

BitmapInit ==
    /\ bitmap = [o \in WordOffsets |-> {}]
    /\ hu = ScanIdle
    /\ bgh = [op |-> "none", source_id |-> 0, arg |-> 0, ret |-> {},
              pending |-> {}, stray |-> {},
              pub |-> [sl \in Slots |-> ZeroSnap],
              seen |-> [sl \in Slots |-> ZeroSnap]]

\* history: a set or swap_word on the source of a has_updates call that has
\* not returned yet runs concurrently with that call
Concurrent(source_id) ==
    IF hu.pc \in {"load", "done"} /\ hu.source_id = source_id
    THEN [hu EXCEPT !.disturbed = TRUE]
    ELSE hu

\* history of a set call: the (source, symbol) update is pending, and it
\* publishes the snapshot last written to the slot
SetHistory(source_id, symbol_id) ==
    [op |-> "set", source_id |-> source_id, arg |-> symbol_id, ret |-> {},
     pending |-> bgh.pending \cup {<<source_id, symbol_id>>},
     stray |-> bgh.stray,
     pub |-> IF <<symbol_id, source_id>> \in Slots
             THEN [bgh.pub EXCEPT ![<<symbol_id, source_id>>] =
                        gh.last[<<symbol_id, source_id>>]]
             ELSE bgh.pub,
     seen |-> bgh.seen]

\* history of a swap_word call that returned `ret`: the updates it reports
\* are no longer pending; a reported bit with no pending update is stray; the
\* consumer has seen what was published for the slots it reports
SwapHistory(source_id, word_idx, ret) ==
    LET reported == { <<source_id, word_idx * WORD_BITS + b>> : b \in ret }
    IN  [op |-> "swap_word", source_id |-> source_id, arg |-> word_idx,
         ret |-> ret,
         pending |-> bgh.pending \ reported,
         stray |-> bgh.stray \cup (reported \ bgh.pending),
         pub |-> bgh.pub,
         seen |-> [sl \in Slots |->
                     IF <<sl[2], sl[1]>> \in reported
                     THEN bgh.pub[sl] ELSE bgh.seen[sl]]]

\* set with the word index rounded up: symbol 63 lands in word 1
Set_word_rounded_up(source_id, symbol_id) ==
    /\ LET word_idx == (symbol_id + 1) \div WORD_BITS
           bit_idx == symbol_id % WORD_BITS
           mask == {bit_idx}
       IN  bitmap' = [bitmap EXCEPT ![word(source_id, word_idx)] = @ \cup mask]
    /\ bgh' = SetHistory(source_id, symbol_id)
    /\ hu' = Concurrent(source_id)
    /\ UNCHANGED OutsideBitmap

\* set(source_id, symbol_id): word(..).fetch_or(1u64 << bit_idx, Release)
Set(source_id, symbol_id) ==
    /\ LET word_idx == symbol_id \div WORD_BITS
           bit_idx == symbol_id % WORD_BITS
           mask == {bit_idx}
       IN  bitmap' = [bitmap EXCEPT ![word(source_id, word_idx)] = @ \cup mask]
    /\ bgh' = SetHistory(source_id, symbol_id)
    /\ hu' = Concurrent(source_id)
    /\ UNCHANGED OutsideBitmap

\* swap_word that loads the word and leaves it as it is
SwapWord_load_only(source_id, word_idx) ==
    /\ bitmap' = bitmap
    /\ bgh' = SwapHistory(source_id, word_idx, bitmap[word(source_id, word_idx)])
    /\ hu' = Concurrent(source_id)
    /\ UNCHANGED OutsideBitmap

\* swap_word(source_id, word_idx): word(..).swap(0, AcqRel)
SwapWord(source_id, word_idx) ==
    /\ bitmap' = [bitmap EXCEPT ![word(source_id, word_idx)] = {}]
    /\ bgh' = SwapHistory(source_id, word_idx, bitmap[word(source_id, word_idx)])
    /\ hu' = Concurrent(source_id)
    /\ UNCHANGED OutsideBitmap

\* has_updates(source_id) is called: for w in 0..WORDS_PER_BLOCK
HasUpdatesCall(source_id) ==
    /\ hu.pc = "idle"
    /\ hu' = [ScanIdle EXCEPT !.pc = "load", !.source_id = source_id]
    /\ UNCHANGED <<bitmap, bgh>>
    /\ UNCHANGED OutsideBitmap

\* has_updates whose loop stops one word short of the block
HasUpdatesLoad_one_short ==
    /\ hu.pc = "load"
    /\ IF bitmap[word(hu.source_id, hu.w)] /= {}
       THEN hu' = [hu EXCEPT !.pc = "done", !.ret = TRUE]
       ELSE hu' = [hu EXCEPT !.w = @ + 1,
                     !.pc = IF hu.w + 1 < WORDS_PER_BLOCK - 1
                            THEN "load" ELSE "done"]
    /\ UNCHANGED <<bitmap, bgh>>
    /\ UNCHANGED OutsideBitmap

\* if word(source_id, w).load(Relaxed) != 0 { return true }; after the last
\* word the loop ends and has_updates returns false
HasUpdatesLoad ==
    /\ hu.pc = "load"
    /\ IF bitmap[word(hu.source_id, hu.w)] /= {}
       THEN hu' = [hu EXCEPT !.pc = "done", !.ret = TRUE]
       ELSE hu' = [hu EXCEPT !.w = @ + 1,
                     !.pc = IF hu.w + 1 < WORDS_PER_BLOCK
                            THEN "load" ELSE "done"]
    /\ UNCHANGED <<bitmap, bgh>>
    /\ UNCHANGED OutsideBitmap

\* the caller has consumed the result of has_updates
HasUpdatesReturn ==
    /\ hu.pc = "done"
    /\ hu' = ScanIdle
    /\ UNCHANGED <<bitmap, bgh>>
    /\ UNCHANGED OutsideBitmap

(***************************************************************************)
(* Control Store (control.rs): three flags and a version counter           *)
(***************************************************************************)
\* number of increment_config_version calls the processes make
MaxIncs == 3
\* the processes that call increment_config_version
CtlProcs == {1, 2}
\* the arguments of set_config_version
Versions == {0, 2}

\* a process outside should_stop
StopIdle == [pc |-> "idle", ret |-> FALSE, disturbed |-> FALSE]

\* a segment that keeps a kill switch left set by an earlier run
ControlInit_not_zeroed ==
    /\ ctl = [global_pause |-> FALSE, kill_switch |-> TRUE,
              shutdown |-> FALSE, config_version |-> 0]
    /\ ss = StopIdle
    /\ cgh = [fresh |-> TRUE, setCalled |-> FALSE, incs |-> 0,
              rets |-> <<>>, lastRead |-> 0]

\* ControlStore::create: a zero-filled 256-byte segment
ControlInit ==
    /\ ctl = [global_pause |-> FALSE, kill_switch |-> FALSE,
              shutdown |-> FALSE, config_version |-> 0]
    /\ ss = StopIdle
    /\ cgh = [fresh |-> TRUE, setCalled |-> FALSE, incs |-> 0,
              rets |-> <<>>, lastRead |-> 0]

\* the getters: one load(Acquire) each
is_paused == ctl.global_pause
is_killed == ctl.kill_switch
is_shutdown == ctl.shutdown
config_version == ctl.config_version

\* history: a store changed the kill switch or the shutdown flag while a
\* should_stop call has not returned
FlagChanged(changed) ==
    IF ss.pc /= "idle" /\ changed
    THEN [ss EXCEPT !.disturbed = TRUE]
    ELSE ss

\* set_pause(paused): global_pause.store(paused, Release)
SetPause(paused) ==
    /\ ctl' = [ctl EXCEPT !.global_pause = paused]
    /\ cgh' = [cgh EXCEPT !.fresh = FALSE]
    /\ UNCHANGED ss
    /\ UNCHANGED OutsideControl

\* set_kill_switch that raises the shutdown flag along with the kill switch
SetKillSwitch_and_shutdown(killed) ==
    /\ ctl' = [ctl EXCEPT !.kill_switch = killed, !.shutdown = killed]
    /\ ss' = FlagChanged(ctl.kill_switch /= killed)
    /\ cgh' = [cgh EXCEPT !.fresh = FALSE]
    /\ UNCHANGED OutsideControl

\* set_kill_switch(killed): kill_switch.store(killed, Release)
SetKillSwitch(killed) ==
    /\ ctl' = [ctl EXCEPT !.kill_switch = killed]
    /\ ss' = FlagChanged(ctl.kill_switch /= killed)
    /\ cgh' = [cgh EXCEPT !.fresh = FALSE]
    /\ UNCHANGED OutsideControl

\* set_shutdown(shutdown): shutdown.store(shutdown, Release)
SetShutdown(shutdown) ==
    /\ ctl' = [ctl EXCEPT !.shutdown = shutdown]
    /\ ss' = FlagChanged(ctl.shutdown /= shutdown)
    /\ cgh' = [cgh EXCEPT !.fresh = FALSE]
    /\ UNCHANGED OutsideControl

\* a process calls config_version(): config_version.load(Acquire)
ReadConfigVersion ==
    /\ cgh' = [cgh EXCEPT !.lastRead = config_version]
    /\ UNCHANGED <<ctl, ss>>
    /\ UNCHANGED OutsideControl

\* set_config_version(version): config_version.store(version, Release)
SetConfigVersion(version) ==
    /\ ctl' = [ctl EXCEPT !.config_version = version]
    /\ cgh' = [cgh EXCEPT !.fresh = FALSE, !.setCalled = TRUE, !.rets = <<>>]
    /\ UNCHANGED ss
    /\ UNCHANGED OutsideControl

\* increment_config_version that returns what fetch_add returns
IncrementConfigVersion_returns_old(proc) ==
    /\ cgh.incs < MaxIncs
    /\ ctl' = [ctl EXCEPT !.config_version = @ + 1]
    /\ cgh' = [cgh EXCEPT !.fresh = FALSE, !.incs = @ + 1,
                  !.rets = IF cgh.setCalled THEN <<>>
                           ELSE Append(@, <<proc, ctl.config_version>>)]
    /\ UNCHANGED ss
    /\ UNCHANGED OutsideControl

\* increment_config_version(): config_version.fetch_add(1, AcqRel) + 1
IncrementConfigVersion(proc) ==
    /\ cgh.incs < MaxIncs
    /\ ctl' = [ctl EXCEPT !.config_version = @ + 1]
    /\ cgh' = [cgh EXCEPT !.fresh = FALSE, !.incs = @ + 1,
                  !.rets = IF cgh.setCalled THEN <<>>
                           ELSE Append(@, <<proc, ctl.config_version + 1>>)]
    /\ UNCHANGED ss
    /\ UNCHANGED OutsideControl

\* should_stop() is called: self.is_killed() || ..
ShouldStopLoadKill ==
    /\ ss.pc = "idle"
    /\ ss' = IF is_killed
             THEN [StopIdle EXCEPT !.pc = "done", !.ret = TRUE]
             ELSE [StopIdle EXCEPT !.pc = "load_shutdown"]
    /\ UNCHANGED <<ctl, cgh>>
    /\ UNCHANGED OutsideControl

\* should_stop whose second operand loads the pause flag
ShouldStopLoadShutdown_loads_pause ==
    /\ ss.pc = "load_shutdown"
    /\ ss' = [ss EXCEPT !.pc = "done", !.ret = is_paused]
    /\ UNCHANGED <<ctl, cgh>>
    /\ UNCHANGED OutsideControl

\* .. || self.is_shutdown(), evaluated only when the kill switch was false
ShouldStopLoadShutdown ==
    /\ ss.pc = "load_shutdown"
    /\ ss' = [ss EXCEPT !.pc = "done", !.ret = is_shutdown]
    /\ UNCHANGED <<ctl, cgh>>
    /\ UNCHANGED OutsideControl

\* the caller has taken the result of should_stop
ShouldStopReturn ==
    /\ ss.pc = "done"
    /\ ss' = StopIdle
    /\ UNCHANGED <<ctl, cgh>>
    /\ UNCHANGED OutsideControl

(***************************************************************************)
(* Health Table (health.rs): 16 slots of atomics, one per process          *)
(***************************************************************************)
NUM_SLOTS == 16
SLOT_SIZE == 64

\* number of writer calls the processes make
MaxHealthOps == 3
\* the slots the processes write, and the slots read
HWriteSlots == {0, NUM_SLOTS - 1}
HReadSlots == {1, NUM_SLOTS - 1}
\* the arguments of set_status, set_ws_connections and set_uptime while all
\* six writer operations run
HStatuses == {"Running", "Stopped"}
WsCounts == {255}
UptimeSecs == {60}
\* the bytes from_u8 is applied to
Bytes == 0..255

\* enum ProcessStatus, and `status as u8`
Statuses == {"Unknown", "Starting", "Running", "Degraded", "Stopped"}

as_u8(status) ==
    CASE status = "Unknown" -> 0
      [] status = "Starting" -> 1
      [] status = "Running" -> 2
      [] status = "Degraded" -> 3
      [] status = "Stopped" -> 4

\* from_u8 without the arm of Stopped
from_u8_no_stopped(v) ==
    CASE v = 1 -> "Starting"
      [] v = 2 -> "Running"
      [] v = 3 -> "Degraded"
      [] OTHER -> "Unknown"

\* ProcessStatus::from_u8
from_u8(v) ==
    CASE v = 1 -> "Starting"
      [] v = 2 -> "Running"
      [] v = 3 -> "Degraded"
      [] v = 4 -> "Stopped"
      [] OTHER -> "Unknown"

\* HealthTable::slot: byte offset of the slot
slot(slot_id) == slot_id * SLOT_SIZE

HealthOffsets == { s * SLOT_SIZE : s \in 0..(NUM_SLOTS - 1) }

\* a zero-filled HealthSlot, and the HealthSnapshot read from one
ZeroSlot ==
    [status |-> 0, heartbeat_us |-> 0, msg_count |-> 0, error_count |-> 0,
     ws_connections |-> 0, uptime_sec |-> 0]

ZeroHealth ==
    [status |-> "Unknown", heartbeat_us |-> 0, msg_count |-> 0,
     error_count |-> 0, ws_connections |-> 0, uptime_sec |-> 0]

\* a process outside read
HealthReadIdle ==
    [pc |-> "idle", slot_id |-> 0, snap |-> ZeroHealth, disturbed |-> FALSE]

HealthInit ==
    /\ health = [o \in HealthOffsets |-> ZeroSlot]
    /\ hr = HealthReadIdle
    /\ hgh = [nops |-> 0, written |-> {},
              lastStatus |-> [s \in 0..(NUM_SLOTS - 1) |-> "Unknown"],
              conv |-> [applied |-> FALSE, byte |-> 0, status |-> "Unknown"]]

\* history: a writer call on the slot of a read that has not returned
Touched(slot_id) ==
    IF hr.pc /= "idle" /\ hr.slot_id = slot_id
    THEN [hr EXCEPT !.disturbed = TRUE]
    ELSE hr

\* history: one more writer call, on this slot
Wrote(slot_id) ==
    [hgh EXCEPT !.nops = @ + 1, !.written = @ \cup {slot_id}]

\* heartbeat(slot_id, timestamp_us): heartbeat_us.store(timestamp_us, Release)
Heartbeat(slot_id, timestamp_us) ==
    /\ hgh.nops < MaxHealthOps
    /\ health' = [health EXCEPT ![slot(slot_id)].heartbeat_us = timestamp_us]
    /\ hr' = Touched(slot_id)
    /\ hgh' = Wrote(slot_id)
    /\ UNCHANGED OutsideHealth

\* set_status(slot_id, status): status.store(status as u8, Release)
SetStatus(slot_id, status) ==
    /\ hgh.nops < MaxHealthOps
    /\ health' = [health EXCEPT ![slot(slot_id)].status = as_u8(status)]
    /\ hr' = Touched(slot_id)
    /\ hgh' = [Wrote(slot_id) EXCEPT !.lastStatus[slot_id] = status]
    /\ UNCHANGED OutsideHealth

\* inc_msg_count(slot_id): msg_count.fetch_add(1, Relaxed)
IncMsgCount(slot_id) ==
    /\ hgh.nops < MaxHealthOps
    /\ health' = [health EXCEPT ![slot(slot_id)].msg_count = @ + 1]
    /\ hr' = Touched(slot_id)
    /\ hgh' = Wrote(slot_id)
    /\ UNCHANGED OutsideHealth

\* inc_error_count that adds to the message counter
IncErrorCount_bumps_msg(slot_id) ==
    /\ hgh.nops < MaxHealthOps
    /\ health' = [health EXCEPT ![slot(slot_id)].msg_count = @ + 1]
    /\ hr' = Touched(slot_id)
    /\ hgh' = Wrote(slot_id)
    /\ UNCHANGED OutsideHealth

\* inc_error_count(slot_id): error_count.fetch_add(1, Relaxed); the u32
\* counter cannot wrap within MaxHealthOps calls
IncErrorCount(slot_id) ==
    /\ hgh.nops < MaxHealthOps
    /\ health' = [health EXCEPT ![slot(slot_id)].error_count = @ + 1]
    /\ hr' = Touched(slot_id)
    /\ hgh' = Wrote(slot_id)
    /\ UNCHANGED OutsideHealth

\* set_ws_connections(slot_id, count): ws_connections.store(count, Relaxed)
SetWsConnections(slot_id, count) ==
    /\ hgh.nops < MaxHealthOps
    /\ health' = [health EXCEPT ![slot(slot_id)].ws_connections = count]
    /\ hr' = Touched(slot_id)
    /\ hgh' = Wrote(slot_id)
    /\ UNCHANGED OutsideHealth

\* set_uptime(slot_id, sec): uptime_sec.store(sec, Relaxed)
SetUptime(slot_id, sec) ==
    /\ hgh.nops < MaxHealthOps
    /\ health' = [health EXCEPT ![slot(slot_id)].uptime_sec = sec]
    /\ hr' = Touched(slot_id)
    /\ hgh' = Wrote(slot_id)
    /\ UNCHANGED OutsideHealth

\* read(slot_id) is called: let s = self.slot(slot_id)
HealthReadCall(slot_id) ==
    /\ hr.pc = "idle"
    /\ hr' = [HealthReadIdle EXCEPT !.pc = "status", !.slot_id = slot_id]
    /\ UNCHANGED <<health, hgh>>
    /\ UNCHANGED OutsideHealth

\* status: ProcessStatus::from_u8(s.status.load(Acquire))
HealthLoadStatus ==
    /\ hr.pc = "status"
    /\ hr' = [hr EXCEPT !.pc = "heartbeat_us",
                 !.snap.status = from_u8(health[slot(hr.slot_id)].status)]
    /\ UNCHANGED <<health, hgh>>
    /\ UNCHANGED OutsideHealth

\* heartbeat_us: s.heartbeat_us.load(Acquire)
HealthLoadHeartbeat ==
    /\ hr.pc = "heartbeat_us"
    /\ hr' = [hr EXCEPT !.pc = "msg_count",
                 !.snap.heartbeat_us = health[slot(hr.slot_id)].heartbeat_us]
    /\ UNCHANGED <<health, hgh>>
    /\ UNCHANGED OutsideHealth

\* msg_count: s.msg_count.load(Relaxed)
HealthLoadMsgCount ==
    /\ hr.pc = "msg_count"
    /\ hr' = [hr EXCEPT !.pc = "error_count",
                 !.snap.msg_count = health[slot(hr.slot_id)].msg_count]
    /\ UNCHANGED <<health, hgh>>
    /\ UNCHANGED OutsideHealth

\* error_count: s.error_count.load(Relaxed)
HealthLoadErrorCount ==
    /\ hr.pc = "error_count"
    /\ hr' = [hr EXCEPT !.pc = "ws_connections",
                 !.snap.error_count = health[slot(hr.slot_id)].error_count]
    /\ UNCHANGED <<health, hgh>>
    /\ UNCHANGED OutsideHealth

\* ws_connections: s.ws_connections.load(Relaxed)
HealthLoadWsConnections ==
    /\ hr.pc = "ws_connections"
    /\ hr' = [hr EXCEPT !.pc = "uptime_sec",
                 !.snap.ws_connections = health[slot(hr.slot_id)].ws_connections]
    /\ UNCHANGED <<health, hgh>>
    /\ UNCHANGED OutsideHealth

\* uptime_sec: s.uptime_sec.load(Relaxed); the HealthSnapshot is complete
HealthLoadUptime ==
    /\ hr.pc = "uptime_sec"
    /\ hr' = [hr EXCEPT !.pc = "done",
                 !.snap.uptime_sec = health[slot(hr.slot_id)].uptime_sec]
    /\ UNCHANGED <<health, hgh>>
    /\ UNCHANGED OutsideHealth

\* the caller has taken the HealthSnapshot
HealthReadReturn ==
    /\ hr.pc = "done"
    /\ hr' = HealthReadIdle
    /\ UNCHANGED <<health, hgh>>
    /\ UNCHANGED OutsideHealth

\* ProcessStatus::from_u8 applied to a byte, once in a run
FromU8Apply(v) ==
    /\ ~hgh.conv.applied
    /\ hgh' = [hgh EXCEPT
                !.conv = [applied |-> TRUE, byte |-> v, status |-> from_u8(v)]]
    /\ UNCHANGED <<health, hr>>
    /\ UNCHANGED OutsideHealth

\* ShmHeader's constants
MAGIC_SEQS == 1397051731
MAGIC_DATA == 1145132097
VERSION == 1

(***************************************************************************)
(* Named segments (mmap.rs)                                                *)
(*                                                                         *)
(* A name in /dev/shm is bound to a file; the file's bytes live in the     *)
(* file, not in the mappings of it, and a file that was unlinked lives on  *)
(* while a descriptor or a mapping refers to it.  Of a file's bytes the    *)
(* model keeps the three ShmHeader fields and the first entry after the    *)
(* header; a cell past the end of the file reads as absent (0).            *)
(* OS failures other than "no such file" (permissions, ENOMEM) are not     *)
(* modelled.                                                               *)
(***************************************************************************)
Names == {"seqs", "data"}
ShmNames == {"seqs"}
ShmProcs == {"init", "worker"}
Inodes == 1..MaxInodes

\* byte offsets of ShmHeader's fields (repr(C): u32, u32, u16)
HdrMagic == 0
HdrVersion == 4
HdrNumSymbols == 8
Cells == {HdrMagic, HdrVersion, HdrNumSymbols, HEADER_SIZE}
CellWidth(cell) ==
    IF cell = HdrNumSymbols THEN 2 ELSE IF cell = HEADER_SIZE THEN 8 ELSE 4

entries_size(max_symbols, num_sources) == max_symbols * num_sources * ENTRY_SIZE
total_size(max_symbols, num_sources) ==
    HEADER_SIZE + entries_size(max_symbols, num_sources)

ShmSizes == {HEADER_SIZE, total_size(MAX_SYMBOLS, NUM_SOURCES)}
ShmCells == {HdrNumSymbols, HEADER_SIZE}

ZeroCells == [cell \in Cells |-> 0]
EmptyFile == [size |-> 0, cells |-> ZeroCells]
NoMap == [ino |-> 0, len |-> 0, by |-> "none"]
IdleProc ==
    [pc |-> "idle", op |-> "none", name |-> "seqs", size |-> 0, fd |-> 0,
     ret |-> "none", val |-> 0]

\* history of one call: what open_shm found, what a load should return
NoObs == [existed |-> FALSE, actual |-> 0, afterRemove |-> FALSE]
NoExp == [named |-> FALSE, val |-> 0]

InFile(cell, size) == cell + CellWidth(cell) <= size

\* File::set_len: the bytes kept are those below both lengths, the rest is 0
Resized(file, size) ==
    [size |-> size,
     cells |-> [cell \in Cells |->
         IF InFile(cell, size) /\ InFile(cell, file.size)
         THEN file.cells[cell] ELSE 0]]

Referenced(i, names, procs, handles) ==
    \/ \E n \in Names : names[n] = i
    \/ \E q \in ShmProcs : procs[q].fd = i
    \/ \E q \in ShmProcs : \E n \in Names : handles[q][n].ino = i

\* a file nothing refers to any more is gone
Collect(files, names, procs, handles) ==
    [i \in Inodes |->
        IF Referenced(i, names, procs, handles) THEN files[i] ELSE EmptyFile]

\* the file a name is bound to
Segment(n) == shm.files[shm.names[n]]

FreeInodes == {i \in Inodes : ~Referenced(i, shm.names, sp, hs)}
NewInode == CHOOSE i \in FreeInodes : \A j \in FreeInodes : i <= j

ShmInit ==
    /\ shm = [names |-> [n \in Names |-> 0], files |-> [i \in Inodes |-> EmptyFile]]
    /\ sp = [q \in ShmProcs |-> IdleProc]
    /\ hs = [q \in ShmProcs |-> [n \in Names |-> NoMap]]
    /\ sgh = [stored |-> [n \in Names |-> ZeroCells],
              dirty |-> [n \in Names |-> FALSE],
              prior |-> [n \in Names |-> FALSE],
              last |-> [n \in Names |-> [by |-> "none", dropped |-> FALSE]],
              removes |-> [n \in Names |-> 0],
              obs |-> [q \in ShmProcs |-> NoObs],
              exp |-> [q \in ShmProcs |-> NoExp]]

\* create_shm: OpenOptions .create(true).truncate(true).open(path)
\* without truncate(true): an existing file keeps its length and its bytes
CreateOpen_no_truncate(q, name, size) ==
    /\ sp[q].pc = "idle"
    /\ hs[q][name].ino = 0
    /\ shm.names[name] # 0 \/ FreeInodes # {}
    /\ LET i == IF shm.names[name] # 0 THEN shm.names[name] ELSE NewInode
       IN /\ shm' = [shm EXCEPT !.names[name] = i]
          /\ sp' = [sp EXCEPT ![q] = [IdleProc EXCEPT !.pc = "set_len",
                 !.op = "create", !.name = name, !.size = size, !.fd = i]]
          /\ sgh' = [sgh EXCEPT !.stored[name] = ZeroCells,
                 !.dirty[name] = FALSE,
                 !.prior[name] = (shm.names[name] # 0
                                  /\ shm.files[i].cells # ZeroCells),
                 !.removes[name] = 0]
    /\ UNCHANGED hs
    /\ UNCHANGED OutsideShm

CreateOpen(q, name, size) ==
    /\ sp[q].pc = "idle"
    /\ hs[q][name].ino = 0
    /\ shm.names[name] # 0 \/ FreeInodes # {}
    /\ LET i == IF shm.names[name] # 0 THEN shm.names[name] ELSE NewInode
       IN /\ shm' = [shm EXCEPT !.names[name] = i, !.files[i] = EmptyFile]
          /\ sp' = [sp EXCEPT ![q] = [IdleProc EXCEPT !.pc = "set_len",
                 !.op = "create", !.name = name, !.size = size, !.fd = i]]
          /\ sgh' = [sgh EXCEPT !.stored[name] = ZeroCells,
                 !.dirty[name] = FALSE,
                 !.prior[name] = (shm.names[name] # 0
                                  /\ shm.files[i].cells # ZeroCells),
                 !.removes[name] = 0]
    /\ UNCHANGED hs
    /\ UNCHANGED OutsideShm

\* create_shm: file.set_len(size)
CreateSetLen(q) ==
    /\ sp[q].pc = "set_len"
    /\ shm' = [shm EXCEPT !.files[sp[q].fd] = Resized(@, sp[q].size)]
    /\ sp' = [sp EXCEPT ![q].pc = "map"]
    /\ UNCHANGED <<hs, sgh>>
    /\ UNCHANGED OutsideShm

\* create_shm: MmapMut::map_mut(&file), Ok(mmap); the descriptor is closed
CreateMap(q) ==
    /\ sp[q].pc = "map"
    /\ sp[q].op = "create"
    /\ hs' = [hs EXCEPT ![q][sp[q].name] =
           [ino |-> sp[q].fd, len |-> shm.files[sp[q].fd].size, by |-> "create"]]
    /\ sp' = [sp EXCEPT ![q].pc = "done", ![q].fd = 0, ![q].ret = "Ok"]
    /\ UNCHANGED <<shm, sgh>>
    /\ UNCHANGED OutsideShm

\* open_shm: OpenOptions .read(true).write(true).open(path)
OpenOpen(q, name, expected_size) ==
    /\ sp[q].pc = "idle"
    /\ hs[q][name].ino = 0
    /\ sp' = [sp EXCEPT ![q] =
           IF shm.names[name] = 0
           THEN [IdleProc EXCEPT !.pc = "done", !.op = "open", !.name = name,
                                 !.size = expected_size, !.ret = "Err"]
           ELSE [IdleProc EXCEPT !.pc = "metadata", !.op = "open", !.name = name,
                                 !.size = expected_size, !.fd = shm.names[name]]]
    /\ sgh' = [sgh EXCEPT !.obs[q] =
           [existed |-> shm.names[name] # 0, actual |-> 0,
            afterRemove |-> sgh.removes[name] > 0]]
    /\ UNCHANGED <<shm, hs>>
    /\ UNCHANGED OutsideShm

\* open_shm's size check with > for >=: a file of exactly the size is refused
OpenMetadata_strict(q) ==
    /\ sp[q].pc = "metadata"
    /\ LET actual_size == shm.files[sp[q].fd].size
           procs == IF actual_size > sp[q].size
                    THEN [sp EXCEPT ![q].pc = "map"]
                    ELSE [sp EXCEPT ![q].pc = "done", ![q].fd = 0, ![q].ret = "Err"]
       IN /\ sp' = procs
          /\ shm' = [shm EXCEPT !.files = Collect(@, shm.names, procs, hs)]
          /\ sgh' = [sgh EXCEPT !.obs[q].actual = actual_size]
    /\ UNCHANGED hs
    /\ UNCHANGED OutsideShm

\* open_shm: file.metadata()?.len(), ensure!(actual_size >= expected_size)
OpenMetadata(q) ==
    /\ sp[q].pc = "metadata"
    /\ LET actual_size == shm.files[sp[q].fd].size
           procs == IF actual_size >= sp[q].size
                    THEN [sp EXCEPT ![q].pc = "map"]
                    ELSE [sp EXCEPT ![q].pc = "done", ![q].fd = 0, ![q].ret = "Err"]
       IN /\ sp' = procs
          /\ shm' = [shm EXCEPT !.files = Collect(@, shm.names, procs, hs)]
          /\ sgh' = [sgh EXCEPT !.obs[q].actual = actual_size]
    /\ UNCHANGED hs
    /\ UNCHANGED OutsideShm

\* open_shm: MmapMut::map_mut(&file), Ok(mmap)
OpenMap(q) ==
    /\ sp[q].pc = "map"
    /\ sp[q].op = "open"
    /\ hs' = [hs EXCEPT ![q][sp[q].name] =
           [ino |-> sp[q].fd, len |-> shm.files[sp[q].fd].size, by |-> "open"]]
    /\ sp' = [sp EXCEPT ![q].pc = "done", ![q].fd = 0, ![q].ret = "Ok"]
    /\ UNCHANGED <<shm, sgh>>
    /\ UNCHANGED OutsideShm

\* remove_shm that unlinks without asking whether the path exists
RemoveExists_unchecked(q, name) ==
    /\ sp[q].pc = "idle"
    /\ sp' = [sp EXCEPT ![q] =
           [IdleProc EXCEPT !.pc = "unlink", !.op = "remove", !.name = name]]
    /\ UNCHANGED <<shm, hs, sgh>>
    /\ UNCHANGED OutsideShm

\* remove_shm: if path.exists()
RemoveExists(q, name) ==
    /\ sp[q].pc = "idle"
    /\ sp' = [sp EXCEPT ![q] =
           IF shm.names[name] # 0
           THEN [IdleProc EXCEPT !.pc = "unlink", !.op = "remove", !.name = name]
           ELSE [IdleProc EXCEPT !.pc = "done", !.op = "remove", !.name = name,
                                 !.ret = "Ok"]]
    /\ sgh' = [sgh EXCEPT !.removes[name] =
           IF shm.names[name] # 0 THEN @ ELSE IF @ < 2 THEN @ + 1 ELSE @]
    /\ UNCHANGED <<shm, hs>>
    /\ UNCHANGED OutsideShm

\* remove_shm: std::fs::remove_file(&path)?, Ok(())
RemoveUnlink(q) ==
    /\ sp[q].pc = "unlink"
    /\ LET name == sp[q].name
           names == [shm.names EXCEPT ![name] = 0]
       IN IF shm.names[name] # 0
          THEN /\ shm' = [names |-> names,
                          files |-> Collect(shm.files, names, sp, hs)]
               /\ sp' = [sp EXCEPT ![q].pc = "done", ![q].ret = "Ok"]
               /\ sgh' = [sgh EXCEPT !.removes[name] = IF @ < 2 THEN @ + 1 ELSE @]
          ELSE /\ sp' = [sp EXCEPT ![q].pc = "done", ![q].ret = "Err"]
               /\ UNCHANGED <<shm, sgh>>
    /\ UNCHANGED hs
    /\ UNCHANGED OutsideShm

\* the helper returns to its caller
ShmReturn(q) ==
    /\ sp[q].pc = "done"
    /\ sp' = [sp EXCEPT ![q] = IdleProc]
    /\ sgh' = [sgh EXCEPT !.obs[q] = NoObs, !.exp[q] = NoExp]
    /\ UNCHANGED <<shm, hs>>
    /\ UNCHANGED OutsideShm

\* a store through a mapping (MmapMut::as_mut_ptr, ptr write): it lands in
\* the file the mapping is of
MapWrite(q, name, cell, val) ==
    /\ sp[q].pc = "idle"
    /\ hs[q][name].ino # 0
    /\ InFile(cell, hs[q][name].len)
    /\ InFile(cell, shm.files[hs[q][name].ino].size)
    /\ shm' = [shm EXCEPT !.files[hs[q][name].ino].cells[cell] = val]
    /\ sgh' = IF shm.names[name] = hs[q][name].ino
              THEN [sgh EXCEPT !.stored[name][cell] = val,
                               !.dirty[name] = TRUE,
                               !.last[name] = [by |-> hs[q][name].by,
                                               dropped |-> FALSE]]
              ELSE sgh
    /\ UNCHANGED <<sp, hs>>
    /\ UNCHANGED OutsideShm

\* a load through a mapping
MapRead(q, name, cell) ==
    /\ sp[q].pc = "idle"
    /\ hs[q][name].ino # 0
    /\ InFile(cell, hs[q][name].len)
    /\ InFile(cell, shm.files[hs[q][name].ino].size)
    /\ sp' = [sp EXCEPT ![q] = [IdleProc EXCEPT !.pc = "done", !.op = "read",
           !.name = name, !.val = shm.files[hs[q][name].ino].cells[cell]]]
    /\ sgh' = [sgh EXCEPT !.exp[q] =
           [named |-> shm.names[name] = hs[q][name].ino,
            val |-> sgh.stored[name][cell]]]
    /\ UNCHANGED <<shm, hs>>
    /\ UNCHANGED OutsideShm

\* dropping a handle that also unlinks the name it was mapped from
MapDrop_unlinks(q, name) ==
    /\ sp[q].pc = "idle"
    /\ hs[q][name].ino # 0
    /\ LET handles == [hs EXCEPT ![q][name] = NoMap]
           names == [shm.names EXCEPT ![name] = 0]
       IN /\ hs' = handles
          /\ shm' = [names |-> names,
                     files |-> Collect(shm.files, names, sp, handles)]
    /\ sgh' = [sgh EXCEPT !.last[name].dropped =
           (@ \/ (hs[q][name].by = "create" /\ sgh.last[name].by = "create"))]
    /\ UNCHANGED sp
    /\ UNCHANGED OutsideShm

\* drop of an MmapMut: munmap; the name and the file's bytes stay
MapDrop(q, name) ==
    /\ sp[q].pc = "idle"
    /\ hs[q][name].ino # 0
    /\ LET handles == [hs EXCEPT ![q][name] = NoMap]
       IN /\ hs' = handles
          /\ shm' = [shm EXCEPT !.files = Collect(@, shm.names, sp, handles)]
    /\ sgh' = [sgh EXCEPT !.last[name].dropped =
           (@ \/ (hs[q][name].by = "create" /\ sgh.last[name].by = "create"))]
    /\ UNCHANGED sp
    /\ UNCHANGED OutsideShm

(***************************************************************************)
(* PriceStore::create and PriceStore::open (price_store.rs)                *)
(*                                                                         *)
(* The two segments are created, opened and validated one access at a      *)
(* time; create_shm and open_shm are taken here as single steps (their     *)
(* own steps are the actions above).  The creating process may have been   *)
(* built with capacity constants or a VERSION other than this program's.   *)
(***************************************************************************)
ThisBuild ==
    [max_symbols |-> MAX_SYMBOLS, num_sources |-> NUM_SOURCES, version |-> VERSION]
Builds ==
    {ThisBuild,
     [ThisBuild EXCEPT !.num_sources = 2 * NUM_SOURCES],
     [ThisBuild EXCEPT !.max_symbols = MAX_SYMBOLS \div 2],
     [ThisBuild EXCEPT !.version = VERSION + 1]}
NumSymbolsArgs == {50}

Magic(field) == IF field = "seqs" THEN MAGIC_SEQS ELSE MAGIC_DATA

\* create_shm as one step: the file of `name` (a new one if there is none)
\* truncated, then set to `size` zero bytes
create_shm(f, name, size, i) ==
    LET target == IF f.names[name] # 0 THEN f.names[name] ELSE i
    IN [names |-> [f.names EXCEPT ![name] = target],
        files |-> [f.files EXCEPT ![target] = Resized(EmptyFile, size)]]

\* open_shm as one step: the mapping returned, NoMap for Err
open_shm(f, name, expected_size) ==
    IF f.names[name] = 0 \/ f.files[f.names[name]].size < expected_size
    THEN NoMap
    ELSE [ino |-> f.names[name], len |-> f.files[f.names[name]].size, by |-> "open"]

NoMaps == [n \in Names |-> NoMap]
PsIdle ==
    [pc |-> "idle", op |-> "none", shm_seqs |-> "seqs", shm_data |-> "data",
     build |-> ThisBuild, num_symbols |-> 0, k |-> 0, ret |-> "none"]
NoMade == [made |-> FALSE, field |-> "none", build |-> ThisBuild, num_symbols |-> 0]
Absent == [size |-> -1, cells |-> ZeroCells]
NoStart == [seqs |-> Absent, data |-> Absent,
            made |-> [n \in Names |-> NoMade], disturbed |-> FALSE]

\* the file bound to a name, as a call finds it
Found(name) == IF shm.names[name] = 0 THEN Absent ELSE Segment(name)

PriceInit ==
    /\ ps = [q \in ShmProcs |-> PsIdle]
    /\ pgh = [made |-> [n \in Names |-> NoMade],
              start |-> [q \in ShmProcs |-> NoStart]]

\* a step of the creator overlaps the open calls that are under way
Overlap(g) ==
    [g EXCEPT !.start = [q \in ShmProcs |->
        IF ps[q].op = "open" /\ ps[q].pc \in {"open_data", "check"}
        THEN [g.start[q] EXCEPT !.disturbed = TRUE] ELSE g.start[q]]]

\* create: let seqs = mmap::create_shm(shm_seqs, total_size())?
PsCreateSeqs(q, build, num_symbols) ==
    /\ ps[q].pc = "idle"
    /\ sp[q].pc = "idle"
    /\ hs[q] = NoMaps
    /\ shm.names["seqs"] # 0 \/ FreeInodes # {}
    /\ LET size == total_size(build.max_symbols, build.num_sources)
           f == create_shm(shm, "seqs", size, NewInode)
       IN /\ shm' = f
          /\ hs' = [hs EXCEPT ![q]["seqs"] =
                 [ino |-> f.names["seqs"], len |-> size, by |-> "create"]]
    /\ ps' = [ps EXCEPT ![q] = [PsIdle EXCEPT !.pc = "create_data",
           !.op = "create", !.build = build, !.num_symbols = num_symbols]]
    /\ pgh' = Overlap([pgh EXCEPT !.made["seqs"] = NoMade])
    /\ UNCHANGED <<sp, sgh>>
    /\ UNCHANGED OutsidePrice

\* create: let data = mmap::create_shm(shm_data, total_size())?
PsCreateData(q) ==
    /\ ps[q].pc = "create_data"
    /\ shm.names["data"] # 0 \/ FreeInodes # {}
    /\ LET size == total_size(ps[q].build.max_symbols, ps[q].build.num_sources)
           f == create_shm(shm, "data", size, NewInode)
       IN /\ shm' = f
          /\ hs' = [hs EXCEPT ![q]["data"] =
                 [ino |-> f.names["data"], len |-> size, by |-> "create"]]
    /\ ps' = [ps EXCEPT ![q].pc = "header", ![q].k = 1]
    /\ pgh' = Overlap([pgh EXCEPT !.made["data"] = NoMade])
    /\ UNCHANGED <<sp, sgh>>
    /\ UNCHANGED OutsidePrice

\* the six header stores of create, in program order
HeaderStores ==
    <<[field |-> "seqs", cell |-> HdrMagic], [field |-> "seqs", cell |-> HdrVersion],
      [field |-> "seqs", cell |-> HdrNumSymbols],
      [field |-> "data", cell |-> HdrMagic], [field |-> "data", cell |-> HdrVersion],
      [field |-> "data", cell |-> HdrNumSymbols]>>

\* create: (*hdr).magic = ..; (*hdr).version = ..; (*hdr).num_symbols = ..
PsWriteHeader(q) ==
    /\ ps[q].pc = "header"
    /\ LET st == HeaderStores[ps[q].k]
           val == IF st.cell = HdrMagic THEN Magic(st.field)
                  ELSE IF st.cell = HdrVersion THEN ps[q].build.version
                  ELSE ps[q].num_symbols
       IN /\ shm' = [shm EXCEPT !.files[hs[q][st.field].ino].cells[st.cell] = val]
          /\ pgh' = Overlap(
                 IF st.cell = HdrNumSymbols
                 THEN [pgh EXCEPT !.made[st.field] =
                          [made |-> TRUE, field |-> st.field, build |-> ps[q].build,
                           num_symbols |-> ps[q].num_symbols]]
                 ELSE pgh)
    /\ ps' = [ps EXCEPT ![q] =
           IF ps[q].k < Len(HeaderStores)
           THEN [@ EXCEPT !.k = ps[q].k + 1]
           ELSE [@ EXCEPT !.pc = "done", !.k = 0, !.ret = "Ok"]]
    /\ UNCHANGED <<sp, hs, sgh>>
    /\ UNCHANGED OutsidePrice

\* open: let seqs = mmap::open_shm(shm_seqs, total_size())?
PsOpenSeqs(q, shm_seqs, shm_data) ==
    /\ ps[q].pc = "idle"
    /\ sp[q].pc = "idle"
    /\ hs[q] = NoMaps
    /\ LET h == open_shm(shm, shm_seqs, total_size(MAX_SYMBOLS, NUM_SOURCES))
       IN /\ hs' = [hs EXCEPT ![q]["seqs"] = h]
          /\ ps' = [ps EXCEPT ![q] =
                 IF h = NoMap
                 THEN [PsIdle EXCEPT !.pc = "done", !.op = "open", !.ret = "Err",
                           !.shm_seqs = shm_seqs, !.shm_data = shm_data]
                 ELSE [PsIdle EXCEPT !.pc = "open_data", !.op = "open",
                           !.shm_seqs = shm_seqs, !.shm_data = shm_data]]
    /\ pgh' = [pgh EXCEPT !.start[q] =
           [seqs |-> Found(shm_seqs), data |-> Found(shm_data),
            made |-> pgh.made, disturbed |-> FALSE]]
    /\ UNCHANGED <<shm, sp, sgh>>
    /\ UNCHANGED OutsidePrice

\* open: let data = mmap::open_shm(shm_data, total_size())?
PsOpenData(q) ==
    /\ ps[q].pc = "open_data"
    /\ LET h == open_shm(shm, ps[q].shm_data, total_size(MAX_SYMBOLS, NUM_SOURCES))
       IN IF h = NoMap
          THEN /\ hs' = [hs EXCEPT ![q] = NoMaps]
               /\ ps' = [ps EXCEPT ![q].pc = "done", ![q].ret = "Err"]
          ELSE /\ hs' = [hs EXCEPT ![q]["data"] = h]
               /\ ps' = [ps EXCEPT ![q].pc = "check", ![q].k = 1]
    /\ UNCHANGED <<shm, sp, sgh, pgh>>
    /\ UNCHANGED OutsidePrice

\* the four ensure! of open, in program order
HeaderChecks ==
    <<[field |-> "seqs", cell |-> HdrMagic, want |-> MAGIC_SEQS],
      [field |-> "seqs", cell |-> HdrVersion, want |-> VERSION],
      [field |-> "data", cell |-> HdrMagic, want |-> MAGIC_DATA],
      [field |-> "data", cell |-> HdrVersion, want |-> VERSION]>>

\* open that validates the two magics only
PsCheckHeader_magic_only(q) ==
    /\ ps[q].pc = "check"
    /\ LET ck == HeaderChecks[ps[q].k]
           val == shm.files[hs[q][ck.field].ino].cells[ck.cell]
       IN IF ck.cell = HdrMagic /\ val # ck.want
          THEN /\ hs' = [hs EXCEPT ![q] = NoMaps]
               /\ ps' = [ps EXCEPT ![q].pc = "done", ![q].k = 0, ![q].ret = "Err"]
          ELSE /\ hs' = hs
               /\ ps' = [ps EXCEPT ![q] =
                      IF ps[q].k < Len(HeaderChecks)
                      THEN [@ EXCEPT !.k = ps[q].k + 1]
                      ELSE [@ EXCEPT !.pc = "done", !.k = 0, !.ret = "Ok"]]
    /\ UNCHANGED <<shm, sp, sgh, pgh>>
    /\ UNCHANGED OutsidePrice

\* open: anyhow::ensure!(hdr.magic == MAGIC_.., ..), ensure!(hdr.version ==
\* VERSION, ..) on the seqs header, then on the data header; Ok(Self)
PsCheckHeader(q) ==
    /\ ps[q].pc = "check"
    /\ LET ck == HeaderChecks[ps[q].k]
           val == shm.files[hs[q][ck.field].ino].cells[ck.cell]
       IN IF val # ck.want
          THEN /\ hs' = [hs EXCEPT ![q] = NoMaps]
               /\ ps' = [ps EXCEPT ![q].pc = "done", ![q].k = 0, ![q].ret = "Err"]
          ELSE /\ hs' = hs
               /\ ps' = [ps EXCEPT ![q] =
                      IF ps[q].k < Len(HeaderChecks)
                      THEN [@ EXCEPT !.k = ps[q].k + 1]
                      ELSE [@ EXCEPT !.pc = "done", !.k = 0, !.ret = "Ok"]]
    /\ UNCHANGED <<shm, sp, sgh, pgh>>
    /\ UNCHANGED OutsidePrice

\* create or open returns to its caller
PsReturn(q) ==
    /\ ps[q].pc = "done"
    /\ ps' = [ps EXCEPT ![q] = PsIdle]
    /\ pgh' = [pgh EXCEPT !.start[q] = NoStart]
    /\ UNCHANGED <<shm, sp, hs, sgh>>
    /\ UNCHANGED OutsidePrice

\* drop of a PriceStore: both mappings go, the segments stay
PsDrop(q) ==
    /\ ps[q].pc = "idle"
    /\ hs[q] # NoMaps
    /\ hs' = [hs EXCEPT ![q] = NoMaps]
    /\ shm' = [shm EXCEPT !.files =
           Collect(@, shm.names, sp, [hs EXCEPT ![q] = NoMaps])]
    /\ UNCHANGED <<sp, sgh, ps, pgh>>
    /\ UNCHANGED OutsidePrice

(***************************************************************************)
(* seqlock_write under release/acquire ordering only (seqlock.rs)          *)
(*                                                                         *)
(* The feed's stores are issued in program order into wb and reach the     *)
(* shared memory (seqs, data) one at a time, in any order the orderings    *)
(* the code asks for allow: a Release store is made visible after every    *)
(* store issued before it, fence(Release) separates the stores before it   *)
(* from those after it, two stores to one location keep their order --     *)
(* and nothing keeps a store issued after a Release store behind it.       *)
(* The reader's loads stay in program order: the Acquire load of s1        *)
(* precedes the data loads, fence(Acquire) puts them before the load of    *)
(* s2.  Its actions are those of PriceStore::read above.                   *)
(***************************************************************************)
WeakSlots == {<<0, 0>>}

Pending(loc, off, val, release) ==
    [loc |-> loc, off |-> off, val |-> val, release |-> release]

\* the store at position j of wb must become visible before the one at i
Ordered(j, i) ==
    \/ wb[i].release
    \/ wb[i].loc = "fence"
    \/ wb[j].loc = "fence"
    \/ (wb[j].loc = wb[i].loc /\ wb[j].off = wb[i].off)

CanCommit(i) == \A j \in 1..(i - 1) : ~Ordered(j, i)

Without(s, i) == SubSeq(s, 1, i - 1) \o SubSeq(s, i + 1, Len(s))

\* the feed's own view of a sequence counter: its latest store, visible or not
OwnSeq(off) ==
    LET mine == {j \in 1..Len(wb) : wb[j].loc = "seq" /\ wb[j].off = off}
    IN IF mine = {} THEN seqs[off]
       ELSE wb[CHOOSE j \in mine : \A k \in mine : k <= j].val

\* let current = seq.seq.load(Relaxed)
WeakLoadCurrent(symbol_id, source_id, snapshot) ==
    /\ w.pc = "idle"
    /\ nwrites < MaxWrites
    /\ w' = [pc |-> "store_odd", symbol_id |-> symbol_id,
             source_id |-> source_id,
             current |-> OwnSeq(slot_offset(symbol_id, source_id)),
             snapshot |-> snapshot]
    /\ nwrites' = nwrites + 1
    /\ gh' = [gh EXCEPT
                !.written[<<symbol_id, source_id>>] = @ \cup {snapshot},
                !.started = @ \cup {<<symbol_id, source_id>>}]
    /\ UNCHANGED <<seqs, data, rd, wb, OutsideWeak>>

\* a store of seqlock_write is issued: it is pending in wb
Issue(entry, pc) ==
    /\ Len(wb) < MaxBuffered
    /\ wb' = Append(wb, entry)
    /\ w' = [w EXCEPT !.pc = pc]
    /\ UNCHANGED <<seqs, data, nwrites, rd, gh, OutsideWeak>>

\* seq.seq.store(current + 1, Release)
WeakStoreOdd ==
    /\ w.pc = "store_odd"
    /\ Issue(Pending("seq", WOff, w.current + 1, TRUE), "write_bid")

\* write_volatile(&mut data.best_bid, snapshot.best_bid)
WeakBid ==
    /\ w.pc = "write_bid"
    /\ Issue(Pending("best_bid", WOff, w.snapshot.best_bid, FALSE), "write_ask")

\* write_volatile(&mut data.best_ask, snapshot.best_ask)
WeakAsk ==
    /\ w.pc = "write_ask"
    /\ Issue(Pending("best_ask", WOff, w.snapshot.best_ask, FALSE), "write_ts")

\* write_volatile(&mut data.updated_at, snapshot.updated_at)
WeakUpdatedAt ==
    /\ w.pc = "write_ts"
    /\ Issue(Pending("updated_at", WOff, w.snapshot.updated_at, FALSE), "fence")

\* std::sync::atomic::fence(Ordering::Release)
WeakFence ==
    /\ w.pc = "fence"
    /\ Issue(Pending("fence", WOff, 0, FALSE), "store_even")

\* seq.seq.store(current + 2, Release); the call returns
WeakStoreEven ==
    /\ w.pc = "store_even"
    /\ Len(wb) < MaxBuffered
    /\ wb' = Append(wb, Pending("seq", WOff, w.current + 2, TRUE))
    /\ w' = WriterIdle
    /\ gh' = [gh EXCEPT !.last[<<w.symbol_id, w.source_id>>] = w.snapshot]
    /\ UNCHANGED <<seqs, data, nwrites, rd, OutsideWeak>>

\* a pending store becomes visible to the other processes
Commit(i) ==
    /\ i \in 1..Len(wb)
    /\ CanCommit(i)
    /\ wb' = Without(wb, i)
    /\ seqs' = IF wb[i].loc = "seq"
               THEN [seqs EXCEPT ![wb[i].off] = wb[i].val] ELSE seqs
    /\ data' = IF wb[i].loc \in {"best_bid", "best_ask", "updated_at"}
               THEN [data EXCEPT ![wb[i].off][wb[i].loc] = wb[i].val] ELSE data
    /\ gh' = [gh EXCEPT !.r = [r \in Readers |->
                 IF rd[r].pc \notin {"idle", "done"} /\ ROff(r) = wb[i].off
                 THEN [gh.r[r] EXCEPT !.disturbed = TRUE] ELSE gh.r[r]]]
    /\ UNCHANGED <<w, nwrites, rd, OutsideWeak>>

(***************************************************************************)
(* PriceSnapshot::is_valid (types.rs)                                      *)
(*                                                                         *)
(* An f64 is its class, sign and magnitude; comparisons are IEEE 754's:    *)
(* every comparison with a NaN is false, -0.0 equals 0.0.                  *)
(***************************************************************************)
F64(cls, neg, mag) == [cls |-> cls, neg |-> neg, mag |-> mag]
NaN == F64("nan", FALSE, 0)
Infinity == F64("inf", FALSE, 0)
Zero == F64("fin", FALSE, 0)
Finite == 0..MaxMag

\* the order of the non-NaN values on the extended real line
Rank(x) ==
    IF x.cls = "inf" THEN (IF x.neg THEN -(MaxMag + 1) ELSE MaxMag + 1)
    ELSE IF x.neg THEN -x.mag ELSE x.mag

f64_gt(a, b) == a.cls # "nan" /\ b.cls # "nan" /\ Rank(a) > Rank(b)
f64_lt(a, b) == a.cls # "nan" /\ b.cls # "nan" /\ Rank(a) < Rank(b)
f64_le(a, b) == a.cls # "nan" /\ b.cls # "nan" /\ Rank(a) <= Rank(b)

\* is_valid with a strict comparison of bid and ask
is_valid_strict(snapshot) ==
    /\ f64_gt(snapshot.best_bid, Zero)
    /\ f64_gt(snapshot.best_ask, Zero)
    /\ f64_lt(snapshot.best_bid, snapshot.best_ask)

\* self.best_bid > 0.0 && self.best_ask > 0.0 && self.best_bid <= self.best_ask
is_valid(snapshot) ==
    /\ f64_gt(snapshot.best_bid, Zero)
    /\ f64_gt(snapshot.best_ask, Zero)
    /\ f64_le(snapshot.best_bid, snapshot.best_ask)

F64s ==
    {NaN, Infinity, F64("fin", TRUE, 0)}
    \cup {F64("fin", FALSE, mag) : mag \in Finite}
    \cup {F64("fin", TRUE, mag) : mag \in Finite \ {0}}
Snapshots ==
    {[best_bid |-> b, best_ask |-> a, updated_at |-> t] :
        b \in F64s, a \in F64s, t \in {0, 1}}

NotCalled(snapshot) == [applied |-> FALSE, snapshot |-> snapshot, ret |-> FALSE]

ValidInit ==
    iv = NotCalled([best_bid |-> F64("fin", FALSE, 1),
                    best_ask |-> F64("fin", FALSE, 2), updated_at |-> 1])

\* snap.is_valid() is called
IsValidApply ==
    /\ ~iv.applied
    /\ iv' = [iv EXCEPT !.applied = TRUE, !.ret = is_valid(iv.snapshot)]
    /\ UNCHANGED OutsideValid

(***************************************************************************)
(* Slot addressing: PriceStore::slot_offset as a function of its arguments *)
(***************************************************************************)
\* symbol_id: u16 and source_id: u8 of the slots the process may address
SymbolIds == 0 .. MAX_SYMBOLS - 1
SourceIds == 0 .. NUM_SOURCES - 1

\* the second slot of a comparison: the corners of the table and their
\* neighbours
PeerSlots ==
    {0, 1, MAX_SYMBOLS - 1} \X {0, 1, NUM_SOURCES - 1}

SlotArgs(a, b) ==
    [a |-> a, b |-> b, applied |-> FALSE, off_a |-> 0, off_b |-> 0]

AddrInit == addr = SlotArgs(<<0, 0>>, <<0, 1>>)

\* Self::slot_offset(symbol_id, source_id), for either slot
SlotOffsetApply ==
    /\ ~addr.applied
    /\ addr' = [addr EXCEPT !.applied = TRUE,
                            !.off_a = slot_offset(addr.a[1], addr.a[2]),
                            !.off_b = slot_offset(addr.b[1], addr.b[2])]
    /\ UNCHANGED OutsideAddr

(***************************************************************************)
(* A second feed: another process that holds the Price Store and writes    *)
(* the slots of its own source.  The headers are as PriceStore::create     *)
(* leaves them.                                                            *)
(***************************************************************************)
HeaderFields == {HdrMagic, HdrVersion, HdrNumSymbols}

CreatedHeader(field, num_symbols) ==
    [cell \in HeaderFields |->
        IF cell = HdrMagic THEN Magic(field)
        ELSE IF cell = HdrVersion THEN VERSION
        ELSE num_symbols]

FeedInit ==
    /\ w2 = WriterIdle
    /\ gh2 = [n |-> 0, last |-> ZeroSnap]
    /\ hdr = [field \in Names |-> CreatedHeader(field, 50)]

W2Off == slot_offset(w2.symbol_id, w2.source_id)

\* write(symbol_id, source_id, snapshot) is called;
\* let current = seq.seq.load(Relaxed)
Write2LoadCurrent(symbol_id, source_id, snapshot) ==
    /\ w2.pc = "idle"
    /\ gh2.n < MaxWrites
    /\ w2' = [pc |-> "store_odd", symbol_id |-> symbol_id,
              source_id |-> source_id,
              current |-> seqs[slot_offset(symbol_id, source_id)],
              snapshot |-> snapshot]
    /\ gh2' = [gh2 EXCEPT !.n = @ + 1]
    /\ UNCHANGED <<hdr, OutsideFeed>>

\* seq.seq.store(current + 1, Release)
Write2StoreOdd ==
    /\ w2.pc = "store_odd"
    /\ seqs' = [seqs EXCEPT ![W2Off] = w2.current + 1]
    /\ w2' = [w2 EXCEPT !.pc = "write_bid"]
    /\ UNCHANGED <<data, w, nwrites, rd, gh, gh2, hdr, OutsideFeedStore>>

\* write_volatile(&mut data.best_bid, snapshot.best_bid)
Write2Bid ==
    /\ w2.pc = "write_bid"
    /\ data' = [data EXCEPT ![W2Off].best_bid = w2.snapshot.best_bid]
    /\ w2' = [w2 EXCEPT !.pc = "write_ask"]
    /\ UNCHANGED <<seqs, w, nwrites, rd, gh, gh2, hdr, OutsideFeedStore>>

\* write_volatile(&mut data.best_ask, snapshot.best_ask)
Write2Ask ==
    /\ w2.pc = "write_ask"
    /\ data' = [data EXCEPT ![W2Off].best_ask = w2.snapshot.best_ask]
    /\ w2' = [w2 EXCEPT !.pc = "write_ts"]
    /\ UNCHANGED <<seqs, w, nwrites, rd, gh, gh2, hdr, OutsideFeedStore>>

\* write_volatile(&mut data.updated_at, snapshot.updated_at)
Write2UpdatedAt ==
    /\ w2.pc = "write_ts"
    /\ data' = [data EXCEPT ![W2Off].updated_at = w2.snapshot.updated_at]
    /\ w2' = [w2 EXCEPT !.pc = "store_even"]
    /\ UNCHANGED <<seqs, w, nwrites, rd, gh, gh2, hdr, OutsideFeedStore>>

\* fence(Release); seq.seq.store(current + 2, Release); the call returns
Write2StoreEven ==
    /\ w2.pc = "store_even"
    /\ seqs' = [seqs EXCEPT ![W2Off] = w2.current + 2]
    /\ w2' = WriterIdle
    /\ gh2' = [gh2 EXCEPT !.last = w2.snapshot]
    /\ UNCHANGED <<data, w, nwrites, rd, gh, hdr, OutsideFeedStore>>

(***************************************************************************)
(* RingBuffer::len and is_empty, called by a process that is neither the   *)
(* producer nor the consumer (a monitor), one action per load              *)
(***************************************************************************)
MaxLenCalls == 1
MaxLenPushes == 3

\* the usize that len returns: n itself, or 2^64 - below after a subtraction
\* that wrapped; a build with overflow checks panics instead
LenValue(n) == [kind |-> "value", n |-> n, below |-> 0]
LenWrapped(below) == [kind |-> "wrapped", n |-> 0, below |-> below]
LenPanic == [kind |-> "panic", n |-> 0, below |-> 0]

\* (prod - cons) as usize on u64 operands
len_sub(prod, cons) ==
    IF prod >= cons THEN {LenValue(prod - cons)}
    ELSE {LenWrapped(cons - prod), LenPanic}

\* self.len() == 0
is_empty(res) == res.kind = "value" /\ res.n = 0

LenIdle ==
    [pc |-> "idle", prod |-> 0, cons |-> 0, result |-> LenValue(0),
     empty |-> FALSE, drained |-> 0]

LenInit ==
    /\ ln = LenIdle
    /\ nlen = 0

\* len() is called; let prod = self.producer().seq.load(Acquire)
LenLoadProd ==
    /\ ln.pc = "idle"
    /\ nlen < MaxLenCalls
    /\ ln' = [LenIdle EXCEPT !.pc = "load_cons", !.prod = ring.producer,
                !.empty = (ring.producer = ring.consumer),
                !.drained = rgh.drained]
    /\ nlen' = nlen + 1
    /\ UNCHANGED OutsideLen

\* let cons = self.consumer().seq.load(Acquire); (prod - cons) as usize
LenLoadCons ==
    /\ ln.pc = "load_cons"
    /\ \E res \in len_sub(ln.prod, ring.consumer) :
            ln' = [ln EXCEPT !.cons = ring.consumer, !.result = res,
                        !.pc = IF res = LenPanic THEN "panicked" ELSE "done"]
    /\ UNCHANGED <<nlen, OutsideLen>>

\* the caller takes the usize (is_empty: compares it with 0)
LenReturn ==
    /\ ln.pc = "done"
    /\ ln' = LenIdle
    /\ UNCHANGED <<nlen, OutsideLen>>

(***************************************************************************)
(* PriceStore::read_seq -> read_seq_only: one Acquire load of the slot's   *)
(* sequence counter.  A feed that stops inside a write.                    *)
(***************************************************************************)
\* history: write calls made on a slot, and stores made into its entries (a
\* write makes five: the odd value, three fields, the even value)
WritesStarted(sl) == Cardinality(gh.written[sl]) - 1

StoresOfCall ==
    CASE w.pc = "write_bid" -> 1
      [] w.pc = "write_ask" -> 2
      [] w.pc = "write_ts" -> 3
      [] w.pc = "store_even" -> 4
      [] OTHER -> 0

StoresMade(sl) ==
    IF w.pc /= "idle" /\ <<w.symbol_id, w.source_id>> = sl
    THEN 5 * (WritesStarted(sl) - 1) + StoresOfCall
    ELSE 5 * WritesStarted(sl)

\* the last call of read_seq: what it returned and the state it was made in;
\* whether it returned the same even value as the call before it on that
\* slot, and whether a read of the slot was called and returned Some between
\* the two
NoSeqCall ==
    [made |-> FALSE, slot |-> <<0, 0>>, value |-> 0, started |-> 0,
     stores |-> 0, last |-> ZeroSnap, idle |-> FALSE, again |-> FALSE,
     between |-> FALSE]

SeqCall(sl, value) ==
    [made |-> TRUE, slot |-> sl,
     value |-> value,
     started |-> WritesStarted(sl),
     stores |-> StoresMade(sl),
     last |-> data[slot_offset(sl[1], sl[2])],
     idle |-> \A r \in Readers : rd[r].pc = "idle",
     again |-> sq.made /\ sq.slot = sl /\ sq.value = value /\ ~IsOdd(value),
     between |-> /\ sq.made /\ sq.slot = sl /\ sq.idle
                 /\ \E r \in Readers :
                        /\ rd[r].pc = "done" /\ rd[r].result.some
                        /\ <<rd[r].symbol_id, rd[r].source_id>> = sl]

SeqInit == sq = NoSeqCall

\* read_seq that returns the counter less one
ReadSeq_minus_one(symbol_id, source_id) ==
    /\ LET value == seqs[slot_offset(symbol_id, source_id)]
       IN  sq' = SeqCall(<<symbol_id, source_id>>,
                         IF value > 0 THEN value - 1 ELSE 0)
    /\ UNCHANGED OutsideSeq

\* read_seq(symbol_id, source_id): seq.seq.load(Acquire)
ReadSeq(symbol_id, source_id) ==
    /\ sq' = SeqCall(<<symbol_id, source_id>>,
                     seqs[slot_offset(symbol_id, source_id)])
    /\ UNCHANGED OutsideSeq

\* the feed stops for ever after store(current + 1) and before
\* store(current + 2): the process is killed, or never scheduled again
WriterStops ==
    /\ w.pc \in {"write_bid", "write_ask", "write_ts", "store_even"}
    /\ w' = [w EXCEPT !.pc = "stopped"]
    /\ UNCHANGED <<seqs, data, nwrites, rd, gh, OutsideStore>>

(***************************************************************************)
(* Specifications                                                          *)
(***************************************************************************)
Init ==
    /\ PriceStoreInit
    /\ RingInit
    /\ BitmapInit
    /\ ControlInit
    /\ HealthInit
    /\ ShmInit
    /\ PriceInit
    /\ wb = <<>>
    /\ ValidInit
    /\ AddrInit
    /\ FeedInit
    /\ LenInit
    /\ SeqInit

\* the feed writes and a reader reads the Price Store
WriterStep ==
    \/ \E sl \in Slots :
            WriteLoadCurrent(sl[1], sl[2], MakeSnapshot(nwrites + 1))
    \/ WriteStoreOdd
    \/ WriteBid
    \/ WriteAsk
    \/ WriteUpdatedAt
    \/ WriteStoreEven

ReaderStep(r) ==
    \/ \E sl \in Slots : ReadCall(r, sl[1], sl[2])
    \/ ReadLoadS1(r)
    \/ ReadBid(r)
    \/ ReadAsk(r)
    \/ ReadUpdatedAt(r)
    \/ ReadLoadS2(r)
    \/ ReadReturn(r)

Next ==
    \/ WriterStep
    \/ \E r \in Readers : ReaderStep(r)

Spec == Init /\ [][Next]_vars

\* the engine pushes and the tracker pops the Event Ring Buffer
ProducerStep ==
    \/ PushLoadProd(make_event(npush + 1))
    \/ PushLoadCons
    \/ PushWriteEntry
    \/ PushStoreProd
    \/ PushReturn

ConsumerStep ==
    \/ PopLoadCons
    \/ PopLoadProd
    \/ PopReadEntry
    \/ PopStoreCons
    \/ PopReturn

NextRing ==
    \/ ProducerStep
    \/ ConsumerStep

SpecRing == Init /\ [][NextRing]_vars

\* a producer and a consumer that call again and again, neither of them
\* stopped for ever by the scheduler
ProducerFairStep ==
    \/ PushNext
    \/ PushLoadCons
    \/ PushWriteEntry
    \/ PushStoreProd
    \/ PushReturn

NextRingFair ==
    \/ ProducerFairStep
    \/ ConsumerStep

SpecRingFair ==
    /\ Init
    /\ [][NextRingFair]_vars
    /\ WF_vars(ProducerFairStep)
    /\ WF_vars(ConsumerStep)

\* the feeds set bits and the engine drains words of the Update Bitmap
NextBitmap ==
    \/ \E so \in BmSources, sy \in BmSymbols : Set(so, sy)
    \/ \E so \in BmSources, wi \in BmWords : SwapWord(so, wi)

SpecBitmap == Init /\ [][NextBitmap]_vars

\* the feed publishes: PriceStore::write, and only then UpdateBitmap::set for
\* the slot it wrote; the engine consumes: swap_word, and afterwards
\* PriceStore::read of a slot whose bit a swap_word returned
AllPublished == \A sl \in Slots : bgh.pub[sl] = gh.last[sl]

FeedWrite(sl) ==
    /\ AllPublished
    /\ WriteLoadCurrent(sl[1], sl[2], MakeSnapshot(nwrites + 1))

FeedSet(sl) ==
    /\ w.pc = "idle"
    /\ bgh.pub[sl] /= gh.last[sl]
    /\ Set(sl[2], sl[1])

EngineSwap(sl) ==
    /\ \A r \in Readers : rd[r].pc = "idle"
    /\ SwapWord(sl[2], sl[1] \div WORD_BITS)

EngineRead(r, sl) ==
    /\ bgh.seen[sl] /= ZeroSnap
    /\ ReadCall(r, sl[1], sl[2])

FeedStep ==
    \/ \E sl \in PubSlots : FeedWrite(sl)
    \/ WriteStoreOdd
    \/ WriteBid
    \/ WriteAsk
    \/ WriteUpdatedAt
    \/ WriteStoreEven
    \/ \E sl \in PubSlots : FeedSet(sl)

EngineStep(r) ==
    \/ \E sl \in PubSlots : EngineSwap(sl)
    \/ \E sl \in PubSlots : EngineRead(r, sl)
    \/ ReadLoadS1(r)
    \/ ReadBid(r)
    \/ ReadAsk(r)
    \/ ReadUpdatedAt(r)
    \/ ReadLoadS2(r)
    \/ ReadReturn(r)

NextPublish ==
    \/ FeedStep
    \/ \E r \in Readers : EngineStep(r)

SpecPublish == Init /\ [][NextPublish]_vars

\* processes set the flags, read, set and increment the version, and one
\* process polls should_stop
NextControl ==
    \/ \E b \in BOOLEAN : SetPause(b)
    \/ \E b \in BOOLEAN : SetKillSwitch(b)
    \/ \E b \in BOOLEAN : SetShutdown(b)
    \/ ReadConfigVersion
    \/ \E v \in Versions : SetConfigVersion(v)
    \/ \E proc \in CtlProcs : IncrementConfigVersion(proc)
    \/ ShouldStopLoadKill
    \/ ShouldStopLoadShutdown
    \/ ShouldStopReturn

SpecControl == Init /\ [][NextControl]_vars

\* processes report into their Health Table slots while a monitor reads
HealthWriterStep ==
    \/ \E s \in HWriteSlots : Heartbeat(s, (hgh.nops + 1) * 1000)
    \/ \E s \in HWriteSlots, st \in HStatuses : SetStatus(s, st)
    \/ \E s \in HWriteSlots : IncMsgCount(s)
    \/ \E s \in HWriteSlots : IncErrorCount(s)
    \/ \E s \in HWriteSlots, n \in WsCounts : SetWsConnections(s, n)
    \/ \E s \in HWriteSlots, n \in UptimeSecs : SetUptime(s, n)

HealthReaderStep ==
    \/ \E s \in HReadSlots : HealthReadCall(s)
    \/ HealthLoadStatus
    \/ HealthLoadHeartbeat
    \/ HealthLoadMsgCount
    \/ HealthLoadErrorCount
    \/ HealthLoadWsConnections
    \/ HealthLoadUptime
    \/ HealthReadReturn

NextHealth ==
    \/ HealthWriterStep
    \/ HealthReaderStep

SpecHealth == Init /\ [][NextHealth]_vars

\* status bytes are converted, and the last process sets its status while
\* the monitor reads its slot
NextStatus ==
    \/ \E v \in Bytes : FromU8Apply(v)
    \/ \E st \in Statuses : SetStatus(NUM_SLOTS - 1, st)
    \/ HealthReadCall(NUM_SLOTS - 1)
    \/ HealthLoadStatus
    \/ HealthLoadHeartbeat
    \/ HealthLoadMsgCount
    \/ HealthLoadErrorCount
    \/ HealthLoadWsConnections
    \/ HealthLoadUptime
    \/ HealthReadReturn

SpecStatus == Init /\ [][NextStatus]_vars

\* the engine scans a source with has_updates while bits of the first and
\* the last word of two sources are set and drained
NextScan ==
    \/ \E so \in BmSources, sy \in ScanSymbols : Set(so, sy)
    \/ \E so \in BmSources, wi \in ScanWords : SwapWord(so, wi)
    \/ \E so \in BmSources : HasUpdatesCall(so)
    \/ HasUpdatesLoad
    \/ HasUpdatesReturn

SpecScan == Init /\ [][NextScan]_vars

\* shm-init creates and removes a named segment, a worker opens it, and both
\* store and load through the mappings they hold
Creators == {"init"}
Openers == {"worker"}
ShmVals == {7}

LifecycleStep ==
    \/ \E n \in ShmNames : \E size \in ShmSizes : CreateOpen("init", n, size)
    \/ \E q \in Creators : CreateSetLen(q)
    \/ \E q \in Creators : CreateMap(q)
    \/ \E n \in ShmNames : RemoveExists("init", n)
    \/ \E q \in Creators : RemoveUnlink(q)

OpenerStep ==
    \/ \E n \in ShmNames : \E size \in ShmSizes : OpenOpen("worker", n, size)
    \/ \E q \in Openers : OpenMetadata(q)
    \/ \E q \in Openers : OpenMap(q)

MappingStep(q) ==
    \/ \E n \in ShmNames : \E cell \in ShmCells : \E val \in ShmVals :
           MapWrite(q, n, cell, val)
    \/ \E n \in ShmNames : \E cell \in ShmCells : MapRead(q, n, cell)
    \/ \E n \in ShmNames : MapDrop(q, n)
    \/ ShmReturn(q)

NextShm ==
    \/ LifecycleStep
    \/ OpenerStep
    \/ \E q \in ShmProcs : MappingStep(q)

SpecShm == Init /\ [][NextShm]_vars

\* shm-init (of this or of another build) creates the Price Store while a
\* worker opens it, with the two names in either order
NamePairs == {<<"seqs", "data">>, <<"data", "seqs">>}

PriceCreatorStep ==
    \/ \E build \in Builds : \E num_symbols \in NumSymbolsArgs \cup {build.max_symbols} :
           PsCreateSeqs("init", build, num_symbols)
    \/ \E q \in Creators : PsCreateData(q)
    \/ \E q \in Creators : PsWriteHeader(q)

PriceOpenerStep ==
    \/ \E pair \in NamePairs : PsOpenSeqs("worker", pair[1], pair[2])
    \/ \E q \in Openers : PsOpenData(q)
    \/ \E q \in Openers : PsCheckHeader(q)

NextPriceOpen ==
    \/ PriceCreatorStep
    \/ PriceOpenerStep
    \/ \E q \in ShmProcs : PsReturn(q)
    \/ \E q \in ShmProcs : PsDrop(q)

SpecPriceOpen == Init /\ [][NextPriceOpen]_vars

\* the feed writes with its stores becoming visible in any order the code's
\* orderings allow, and a reader reads
WeakWriterStep ==
    \/ \E sl \in WeakSlots :
            WeakLoadCurrent(sl[1], sl[2], MakeSnapshot(nwrites + 1))
    \/ WeakStoreOdd
    \/ WeakBid
    \/ WeakAsk
    \/ WeakUpdatedAt
    \/ WeakFence
    \/ WeakStoreEven
    \/ \E i \in 1..MaxBuffered : Commit(i)

WeakReaderStep(r) ==
    \/ \E sl \in WeakSlots : ReadCall(r, sl[1], sl[2])
    \/ ReadLoadS1(r)
    \/ ReadBid(r)
    \/ ReadAsk(r)
    \/ ReadUpdatedAt(r)
    \/ ReadLoadS2(r)
    \/ ReadReturn(r)

NextWeak ==
    \/ WeakWriterStep
    \/ \E r \in Readers : WeakReaderStep(r)

SpecWeak == Init /\ [][NextWeak]_vars

\* is_valid is applied to one snapshot, any of Snapshots
InitValid ==
    /\ PriceStoreInit
    /\ RingInit
    /\ BitmapInit
    /\ ControlInit
    /\ HealthInit
    /\ ShmInit
    /\ PriceInit
    /\ wb = <<>>
    /\ \E snapshot \in Snapshots : iv = NotCalled(snapshot)
    /\ AddrInit
    /\ FeedInit
    /\ LenInit
    /\ SeqInit

NextValid == IsValidApply

SpecValid == InitValid /\ [][NextValid]_vars

\* slot_offset is applied to a slot, any in range, and to one of PeerSlots
InitAddr ==
    /\ PriceStoreInit
    /\ RingInit
    /\ BitmapInit
    /\ ControlInit
    /\ HealthInit
    /\ ShmInit
    /\ PriceInit
    /\ wb = <<>>
    /\ ValidInit
    /\ \E a \in SymbolIds \X SourceIds : \E b \in PeerSlots : addr = SlotArgs(a, b)
    /\ FeedInit
    /\ LenInit
    /\ SeqInit

NextAddr == SlotOffsetApply

SpecAddr == InitAddr /\ [][NextAddr]_vars

\* two feeds write the Price Store at the same time, each the slots of its
\* own source
Feed1Slots == {<<0, 0>>, <<MAX_SYMBOLS - 1, NUM_SOURCES - 1>>}
Feed2Slots == {<<0, NUM_SOURCES - 1>>}

Feed2Step ==
    \/ \E sl \in Feed2Slots :
            Write2LoadCurrent(sl[1], sl[2], MakeSnapshot(MaxWrites + 1 + gh2.n))
    \/ Write2StoreOdd
    \/ Write2Bid
    \/ Write2Ask
    \/ Write2UpdatedAt
    \/ Write2StoreEven

NextFeeds ==
    \/ \E sl \in Feed1Slots :
            WriteLoadCurrent(sl[1], sl[2], MakeSnapshot(nwrites + 1))
    \/ WriteStoreOdd
    \/ WriteBid
    \/ WriteAsk
    \/ WriteUpdatedAt
    \/ WriteStoreEven
    \/ Feed2Step

SpecFeeds == Init /\ [][NextFeeds]_vars

\* a monitor calls len while the producer pushes and the consumer pops
LenStep == LenLoadProd \/ LenLoadCons \/ LenReturn

NextLen ==
    \/ npush < MaxLenPushes /\ PushLoadProd(make_event(npush + 1))
    \/ PushLoadCons
    \/ PushWriteEntry
    \/ PushStoreProd
    \/ PushReturn
    \/ ConsumerStep
    \/ LenStep

SpecLen == Init /\ [][NextLen]_vars


\* the six operations with their peers.  The three components share no
\* variable, so a behaviour exercises one of them: a step of a component is
\* taken while the other two are as created
NbSlots == {<<0, NUM_SOURCES - 1>>}

NbStoreStep ==
    \/ \E sl \in NbSlots :
            WriteLoadCurrent(sl[1], sl[2], MakeSnapshot(nwrites + 1))
    \/ WriteStoreOdd
    \/ WriteBid
    \/ WriteAsk
    \/ WriteUpdatedAt
    \/ WriteStoreEven
    \/ \E r \in Readers : \E sl \in NbSlots : ReadCall(r, sl[1], sl[2])
    \/ \E r \in Readers :
            \/ ReadLoadS1(r)
            \/ ReadBid(r)
            \/ ReadAsk(r)
            \/ ReadUpdatedAt(r)
            \/ ReadLoadS2(r)
            \/ ReadReturn(r)

NextNonBlocking ==
    \/ (RingInit /\ BitmapInit /\ NbStoreStep)
    \/ (PriceStoreInit /\ BitmapInit /\ NextRing)
    \/ (PriceStoreInit /\ RingInit /\ NextScan)

SpecNonBlocking == Init /\ [][NextNonBlocking]_vars

\* the feed writes a slot, a process reads it and calls read_seq on it
MaxSeqWrites == 2

NextSeq ==
    \/ \E sl \in NbSlots :
            /\ nwrites < MaxSeqWrites
            /\ WriteLoadCurrent(sl[1], sl[2], MakeSnapshot(nwrites + 1))
    \/ WriteStoreOdd
    \/ WriteBid
    \/ WriteAsk
    \/ WriteUpdatedAt
    \/ WriteStoreEven
    \/ \E r \in Readers : \E sl \in NbSlots : ReadCall(r, sl[1], sl[2])
    \/ \E r \in Readers :
            \/ ReadLoadS1(r)
            \/ ReadBid(r)
            \/ ReadAsk(r)
            \/ ReadUpdatedAt(r)
            \/ ReadLoadS2(r)
            \/ ReadReturn(r)
    \/ \E sl \in NbSlots : ReadSeq(sl[1], sl[2])

SpecSeq == Init /\ [][NextSeq]_vars

\* the feed writes two slots and may stop inside a write; a process reads
\* the slots, and calls read_seq on them once the feed has stopped
StopSlots == {<<0, 0>>, <<0, NUM_SOURCES - 1>>}

NextStop ==
    \/ \E sl \in StopSlots :
            /\ nwrites < MaxSeqWrites
            /\ WriteLoadCurrent(sl[1], sl[2], MakeSnapshot(nwrites + 1))
    \/ WriteStoreOdd
    \/ WriteBid
    \/ WriteAsk
    \/ WriteUpdatedAt
    \/ WriteStoreEven
    \/ WriterStops
    \/ \E r \in Readers : \E sl \in StopSlots : ReadCall(r, sl[1], sl[2])
    \/ \E r \in Readers :
            \/ ReadLoadS1(r)
            \/ ReadBid(r)
            \/ ReadAsk(r)
            \/ ReadUpdatedAt(r)
            \/ ReadLoadS2(r)
            \/ ReadReturn(r)
    \/ \E sl \in StopSlots : w.pc = "stopped" /\ ReadSeq(sl[1], sl[2])

SpecStop == Init /\ [][NextStop]_vars





(***************************************************************************)
(* Properties of the SeqLock and the Price Store, checked under Spec       *)
(***************************************************************************)
RSlot(r) == <<rd[r].symbol_id, rd[r].source_id>>
Returned(r) == rd[r].pc = "done"
ReadAccessPcs == {"load_s1", "read_bid", "read_ask", "read_ts", "load_s2"}

C2_RoundTrip ==
    \A r \in Readers :
        (Returned(r) /\ gh.r[r].quiet /\ ~gh.r[r].disturbed) =>
            rd[r].result = Some(gh.r[r].expect)

\* the third write of the run, after writes to another slot, is read back
C2_Witness ==
    \E r \in Readers :
        /\ Returned(r) /\ gh.r[r].quiet /\ ~gh.r[r].disturbed
        /\ rd[r].result = Some(MakeSnapshot(MaxWrites))
        /\ Cardinality(gh.started) >= 2

\* C7: bounded read. seqlock_read makes at most MAX_READ_RETRIES attempts;
\* an attempt that finds an odd sequence value and an attempt whose second
\* load differs each use up one; it returns None exactly when all attempts
\* are used; it never makes more than 5 memory accesses per attempt and
\* never waits, whatever the writer does or fails to do.
C7_BoundedRead ==
    \A r \in Readers :
        /\ rd[r].i <= MAX_READ_RETRIES
        /\ gh.r[r].oddAttempts + gh.r[r].misAttempts = rd[r].i
        /\ gh.r[r].steps <= Cardinality(ReadAccessPcs) * MAX_READ_RETRIES
        /\ Returned(r) =>
                (rd[r].result.some <=> rd[r].i < MAX_READ_RETRIES)
        /\ rd[r].pc \in ReadAccessPcs => ENABLED ReaderStep(r)

\* a read gives up after attempts of both kinds while a write is unfinished
C7_Witness ==
    \E r \in Readers :
        /\ Returned(r) /\ ~rd[r].result.some
        /\ gh.r[r].oddAttempts >= 1
        /\ gh.r[r].misAttempts >= 1
        /\ w.pc /= "idle"

\* C8: None only because of writer activity. A read that starts on an even
\* sequence value and is overlapped by no step of a write to its slot
\* returns Some on its first attempt; and no step of a read changes a
\* sequence counter or the data.
C8_NoneOnlyUnderWrites ==
    /\ [](\A r \in Readers :
            (Returned(r) /\ gh.r[r].startEven /\ ~gh.r[r].disturbed) =>
                (rd[r].result.some /\ rd[r].i = 0))
    /\ [][rd' /= rd => (seqs' = seqs /\ data' = data)]_vars

\* an undisturbed read of a written slot while the feed is inside a write
\* to another slot
C8_Witness ==
    \E r \in Readers :
        /\ Returned(r) /\ gh.r[r].startEven /\ ~gh.r[r].disturbed
        /\ rd[r].result.some /\ rd[r].result.snap /= ZeroSnap
        /\ w.pc \notin {"idle", "store_odd"}

\* C9: a slot of a fresh Price Store to which no write was ever started
\* reads as Some of the all-zero snapshot, whatever is written, or being
\* written, to other slots.
C9_UnwrittenReadsZero ==
    \A r \in Readers :
        (Returned(r) /\ RSlot(r) \notin gh.started) =>
            rd[r].result = Some(ZeroSnap)

\* an unwritten slot is read while other slots are written
C9_Witness ==
    \E r \in Readers :
        /\ Returned(r) /\ RSlot(r) \notin gh.started
        /\ Cardinality(gh.started) >= 2
        /\ w.pc \notin {"idle", "store_odd"}

(***************************************************************************)
(* Properties of the ring buffer, checked under SpecRing                   *)
(***************************************************************************)
IsPrefix(s, t) ==
    /\ Len(s) <= Len(t)
    /\ \A k \in 1..Len(s) : s[k] = t[k]

\* C3: FIFO. Under every interleaving of the producer's and the consumer's
\* loads and stores the events returned by successful pops are, in order,
\* a prefix of the events whose push returned true.
C3_RingFifo == IsPrefix(rgh.popped, rgh.pushed)

\* every slot has been reused twice and all events were popped in order
C3_Witness ==
    /\ Len(rgh.popped) > 2 * CAPACITY
    /\ rgh.popped = rgh.pushed

\* C4: capacity and backpressure. push returns true exactly when fewer than
\* CAPACITY events were pending when it loaded the consumer position, and
\* the steps of a push that returns false change nothing in the segment.
C4_PushBackpressure ==
    /\ [](p.pc = "done" => (p.result <=> rgh.pushPending < CAPACITY))
    /\ [][(p' /= p /\ (p'.pc \in {"load_cons", "idle"}
                       \/ (p'.pc = "done" /\ ~p'.result)))
            => ring' = ring]_vars

\* CAPACITY pushes into the empty buffer succeeded and the next returns false
C4_Witness ==
    /\ p.pc = "done" /\ ~p.result
    /\ ring.producer = CAPACITY /\ ring.consumer = 0
    /\ Len(rgh.pushed) = CAPACITY

\* C5: after a pop from a full buffer (no push in progress), the first push
\* that follows returns true and the push after it, with no further pop,
\* returns false.
C5_OneMorePush ==
    /\ rgh.scn >= 2 => rgh.first
    /\ rgh.scn = 3 => ~rgh.second

\* both pushes after the pop from a full buffer have returned
C5_Witness ==
    /\ rgh.scn = 3
    /\ ring.producer - ring.consumer = CAPACITY

\* C6: pop returns None exactly when no event was pending when it loaded
\* the producer position, and then changes nothing; a pop that returns Some
\* advances the consumer position by exactly one and changes nothing else.
C6_PopContract ==
    /\ [](c.pc = "done" => (c.result.some <=> rgh.popPending > 0))
    /\ [][c' /= c =>
            IF c'.pc = "done" /\ c'.result.some
            THEN ring' = [ring EXCEPT !.consumer = ring.consumer + 1]
            ELSE ring' = ring]_vars

\* a pop finds the buffer empty after events were pushed and popped
C6_Witness ==
    /\ c.pc = "done" /\ ~c.result.some
    /\ ring.consumer = ring.producer
    /\ Len(rgh.popped) >= 1

(***************************************************************************)
(* Properties of the bitmap, checked under SpecBitmap                      *)
(***************************************************************************)
\* word `wi` of the 128-byte block of source `so` in the segment `b`
WordOf(b, so, wi) == b[so * BLOCK_SIZE + wi * WORD_BYTES]

\* C10: bitmap routing. set(source_id, symbol_id) turns on bit
\* (symbol_id mod 64) of word (symbol_id div 64) of that source's block
\* and changes no other bit of any word of any source.
C10_BitmapRouting ==
    [][\A s \in BmSources, y \in BmSymbols :
        Set(s, y) =>
            \A so \in 0..(NUM_SOURCES - 1), wi \in 0..(WORDS_PER_BLOCK - 1) :
                WordOf(bitmap', so, wi) =
                    IF so = s /\ wi = y \div 64
                    THEN WordOf(bitmap, so, wi) \cup {y % 64}
                    ELSE WordOf(bitmap, so, wi)]_vars

\* symbol 64 has just been set after symbol 63: word 0 holds bit 63, word 1
\* holds bit 0
C10_Witness ==
    /\ bgh.op = "set" /\ bgh.arg = 64
    /\ WordOf(bitmap, bgh.source_id, 0) = {63}
    /\ WordOf(bitmap, bgh.source_id, 1) = {0}

\* C11: swap_word drains atomically. With set and swap_word calls of the
\* feeds and the engine interleaved in any order, every update set by a
\* completed set call and not yet returned by a swap_word is still set in
\* its word (none is lost), and swap_word never returns a bit for which no
\* set call is pending (none is reported twice); swap_word returns the
\* word's previous value and leaves the word 0.
C11_SwapDrains ==
    /\ [](/\ \A pr \in bgh.pending :
                (pr[2] % WORD_BITS) \in WordOf(bitmap, pr[1], pr[2] \div WORD_BITS)
          /\ bgh.stray = {})
    /\ [][\A s \in BmSources, wi \in BmWords :
            SwapWord(s, wi) =>
                /\ bgh'.ret = WordOf(bitmap, s, wi)
                /\ WordOf(bitmap', s, wi) = {}]_vars

\* one swap_word has returned the two pending updates of word 0 and left
\* the word 0, while an update of word 1 is still pending
C11_Witness ==
    /\ bgh.op = "swap_word" /\ bgh.arg = 0 /\ bgh.ret = {0, 63}
    /\ WordOf(bitmap, bgh.source_id, 0) = {}
    /\ bgh.pending \cap {<<bgh.source_id, 0>>, <<bgh.source_id, 63>>} = {}
    /\ <<bgh.source_id, 64>> \in bgh.pending

(***************************************************************************)
(* Properties of has_updates, checked under SpecScan                       *)
(***************************************************************************)
\* C12: has_updates(source), with no set or swap_word on that source during
\* the scan, returns true exactly when some bit of one of the source's 16
\* words is set, whatever is set or drained on other sources meanwhile.
C12_HasUpdates ==
    (hu.pc = "done" /\ ~hu.disturbed) =>
        (hu.ret <=>
            \E wi \in 0..(WORDS_PER_BLOCK - 1) :
                WordOf(bitmap, hu.source_id, wi) /= {})

\* an undisturbed scan finds the only update of its source in the last word
\* of the block, after the first word was set and drained
C12_Witness ==
    /\ hu.pc = "done" /\ ~hu.disturbed /\ hu.ret
    /\ hu.w = WORDS_PER_BLOCK - 1
    /\ <<hu.source_id, 0>> \notin bgh.pending
    /\ bgh.op = "swap_word" /\ bgh.source_id /= hu.source_id

(***************************************************************************)
(* Publication through the bitmap, checked under SpecPublish               *)
(***************************************************************************)
\* C13: publication order. The feed writes snapshot S to a slot and only
\* then sets the slot's bit; once a swap_word of the engine has returned
\* that bit, a read of the slot by the engine returns None, or Some of S or
\* of a snapshot written to the slot after S, never an older snapshot and
\* never a mix.
C13_PublicationOrder ==
    \A r \in Readers :
        (Returned(r) /\ bgh.seen[RSlot(r)] /= ZeroSnap /\ rd[r].result.some) =>
            /\ rd[r].result.snap \in gh.written[RSlot(r)]
            /\ rd[r].result.snap.updated_at >= bgh.seen[RSlot(r)].updated_at

\* the engine's swap_word returned the bit of a slot written twice, and the
\* read that followed returned the snapshot published last
C13_Witness ==
    \E r \in Readers :
        /\ Returned(r) /\ rd[r].result = Some(bgh.seen[RSlot(r)])
        /\ bgh.op = "swap_word"
        /\ (rd[r].symbol_id % WORD_BITS) \in bgh.ret
        /\ bgh.arg = rd[r].symbol_id \div WORD_BITS
        /\ bgh.seen[RSlot(r)].updated_at >= 2
        /\ Cardinality(gh.written[RSlot(r)]) >= 3

(***************************************************************************)
(* Properties of the Control Store, checked under SpecControl              *)
(***************************************************************************)
\* C14: fresh Control Store. Until the first store or increment, is_paused,
\* is_killed and is_shutdown are false, config_version is 0 and is what
\* config_version() returned, and a should_stop call returns false.
C14_FreshDefaults ==
    cgh.fresh =>
        /\ is_paused = FALSE
        /\ is_killed = FALSE
        /\ is_shutdown = FALSE
        /\ config_version = 0
        /\ cgh.lastRead = 0
        /\ ss.pc = "done" => ss.ret = FALSE

\* should_stop has made both loads on the fresh store and returned
C14_Witness ==
    /\ cgh.fresh
    /\ ss.pc = "done"

\* C15: increment_config_version adds 1 atomically and returns the new
\* value. As long as no process has called set_config_version, the k-th
\* call, whichever process makes it, returns k; so all returned values are
\* distinct and config_version equals the number of calls.
C15_IncrementAtomic ==
    ~cgh.setCalled =>
        /\ Len(cgh.rets) = cgh.incs
        /\ \A k \in 1..Len(cgh.rets) : cgh.rets[k][2] = k
        /\ \A j, k \in 1..Len(cgh.rets) :
                j /= k => cgh.rets[j][2] /= cgh.rets[k][2]
        /\ config_version = cgh.incs

\* both processes have incremented, MaxIncs calls in all
C15_Witness ==
    /\ ~cgh.setCalled
    /\ Len(cgh.rets) = MaxIncs
    /\ { cgh.rets[k][1] : k \in 1..Len(cgh.rets) } = CtlProcs

\* C16: config_version is monotonic. Over any sequence of config_version,
\* set_config_version and increment_config_version calls, the value
\* returned by config_version() never decreases.
C16_Monotonic == [][cgh'.lastRead >= cgh.lastRead]_vars

\* C17: should_stop, when neither the kill switch nor the shutdown flag is
\* changed during the call, returns true exactly when one of the two is
\* true, whatever the pause flag is and however it changes.
C17_ShouldStop ==
    (ss.pc = "done" /\ ~ss.disturbed) =>
        (ss.ret <=> (ctl.kill_switch \/ ctl.shutdown))

\* should_stop returns true because of the shutdown flag alone
C17_Witness ==
    /\ ss.pc = "done" /\ ~ss.disturbed /\ ss.ret
    /\ ~ctl.kill_switch /\ ctl.shutdown /\ ~ctl.global_pause

\* C18: field independence. Each setter stores its argument in its own
\* field and increment_config_version adds 1 to config_version; every other
\* field of the segment is left as it was, in every interleaving.
C18_ControlFrame ==
    [][/\ \A b \in BOOLEAN :
            /\ SetPause(b) => ctl' = [ctl EXCEPT !.global_pause = b]
            /\ SetKillSwitch(b) => ctl' = [ctl EXCEPT !.kill_switch = b]
            /\ SetShutdown(b) => ctl' = [ctl EXCEPT !.shutdown = b]
       /\ \A v \in Versions :
            SetConfigVersion(v) => ctl' = [ctl EXCEPT !.config_version = v]
       /\ \A proc \in CtlProcs :
            IncrementConfigVersion(proc) =>
                ctl' = [ctl EXCEPT !.config_version = ctl.config_version + 1]
      ]_vars

\* pause and shutdown are set, the kill switch is not, the version was
\* incremented to MaxIncs, and a should_stop call is between its two loads
C18_Witness ==
    /\ ctl = [global_pause |-> TRUE, kill_switch |-> FALSE,
              shutdown |-> TRUE, config_version |-> MaxIncs]
    /\ ss.pc = "load_shutdown"

(***************************************************************************)
(* Properties of the Health Table, checked under SpecHealth and SpecStatus *)
(***************************************************************************)
HealthFields ==
    {"status", "heartbeat_us", "msg_count", "error_count", "ws_connections",
     "uptime_sec"}

\* the step leaves every field of every slot as it was, except `field` of
\* slot `i`
OnlyChanges(i, field) ==
    \A j \in 0..(NUM_SLOTS - 1), f \in HealthFields :
        (j /= i \/ f /= field) =>
            health'[j * SLOT_SIZE][f] = health[j * SLOT_SIZE][f]

\* C19: health slot independence. Every writer call on slot i changes only
\* the one field it names, of slot i only; so a read of slot j during which
\* no writer call was made on slot j returns the content of slot j whatever
\* is written to other slots meanwhile; and a slot never written reads as
\* Unknown with heartbeat, counters, connections and uptime 0.
C19_SlotIndependence ==
    /\ [](/\ (hr.pc = "done" /\ ~hr.disturbed) =>
                hr.snap = [health[hr.slot_id * SLOT_SIZE] EXCEPT
                              !.status = hgh.lastStatus[hr.slot_id]]
          /\ (hr.pc = "done" /\ hr.slot_id \notin hgh.written) =>
                hr.snap = ZeroHealth)
    /\ [][\A i \in HWriteSlots :
            /\ Heartbeat(i, (hgh.nops + 1) * 1000) =>
                    OnlyChanges(i, "heartbeat_us")
            /\ \A st \in HStatuses :
                    SetStatus(i, st) => OnlyChanges(i, "status")
            /\ IncMsgCount(i) => OnlyChanges(i, "msg_count")
            /\ IncErrorCount(i) => OnlyChanges(i, "error_count")
            /\ \A n \in WsCounts :
                    SetWsConnections(i, n) => OnlyChanges(i, "ws_connections")
            /\ \A n \in UptimeSecs :
                    SetUptime(i, n) => OnlyChanges(i, "uptime_sec")]_vars

\* the never-written slot 1 has been read as all zero after MaxHealthOps
\* writer calls on both of its neighbours in the model
C19_Witness ==
    /\ hr.pc = "done" /\ hr.slot_id = 1 /\ hr.snap = ZeroHealth
    /\ hgh.written = HWriteSlots
    /\ hgh.nops = MaxHealthOps
    /\ health[0] /= ZeroSlot /\ health[(NUM_SLOTS - 1) * SLOT_SIZE] /= ZeroSlot

StatusNames == <<"Starting", "Running", "Degraded", "Stopped">>

\* C20: status encoding round trip. The bytes 1, 2, 3, 4 convert to
\* Starting, Running, Degraded, Stopped and every other byte of 0..255 to
\* Unknown; a read of a slot after set_status(slot, s), with no writer call
\* on the slot during the read, returns status s.
C20_StatusRoundTrip ==
    /\ hgh.conv.applied =>
            hgh.conv.status =
                IF hgh.conv.byte \in 1..4
                THEN StatusNames[hgh.conv.byte] ELSE "Unknown"
    /\ (hr.pc = "done" /\ ~hr.disturbed /\ hr.slot_id \in hgh.written) =>
            hr.snap.status = hgh.lastStatus[hr.slot_id]

\* byte 255 was converted, and Stopped is read back from a slot whose status
\* was set more than once
C20_Witness ==
    /\ hgh.conv.applied /\ hgh.conv.byte = 255
    /\ hr.pc = "done" /\ ~hr.disturbed
    /\ hr.snap.status = "Stopped"
    /\ hgh.nops >= 2

\* a step leaves the names and the bytes of every named segment as they were
SegmentsKept ==
    /\ shm'.names = shm.names
    /\ \A n \in Names : shm.names[n] # 0 => shm'.files[shm.names[n]] = Segment(n)

\* C21: reopen persistence.  What was stored through a mapping of a named
\* segment stays in the segment: the segment holds, at every moment, the
\* values last stored under its name since it was created, a load through a
\* mapping of it (one obtained by open included) returns exactly them, and
\* dropping a mapping changes neither which names exist nor a single byte of
\* a named segment.
C21_ReopenPersistence ==
    /\ [](\A n \in Names : shm.names[n] # 0 => Segment(n).cells = sgh.stored[n])
    /\ [](\A q \in ShmProcs :
             (sp[q].pc = "done" /\ sp[q].op = "read" /\ sgh.exp[q].named)
             => sp[q].val = sgh.exp[q].val)
    /\ [][\A q \in ShmProcs : \A n \in Names : MapDrop(q, n) => SegmentsKept]_vars

\* the creator stored a value, dropped its handle, and a handle obtained by
\* open reads the value
C21_Witness ==
    /\ sgh.last["seqs"] = [by |-> "create", dropped |-> TRUE]
    /\ hs["init"]["seqs"] = NoMap
    /\ hs["worker"]["seqs"].by = "open"
    /\ sp["worker"].pc = "done"
    /\ sp["worker"].op = "read"
    /\ sgh.exp["worker"].named
    /\ sp["worker"].val \in ShmVals

\* C22: create zero-fills.  When create_shm returns, the segment has the
\* requested length and, until somebody stores into it, every byte of it is
\* zero, also when the name was bound to a segment with non-zero content
\* before the call.
C22_CreateZeroFills ==
    \A q \in ShmProcs :
        (sp[q].pc = "done" /\ sp[q].op = "create")
        => /\ sp[q].ret = "Ok"
           /\ shm.names[sp[q].name] = hs[q][sp[q].name].ino
           /\ hs[q][sp[q].name].len = sp[q].size
           /\ Segment(sp[q].name).size = sp[q].size
           /\ (~sgh.dirty[sp[q].name] => Segment(sp[q].name).cells = ZeroCells)

\* create returned over a segment that held non-zero bytes, nothing stored since
C22_Witness ==
    /\ sp["init"].pc = "done"
    /\ sp["init"].op = "create"
    /\ sgh.prior["seqs"]
    /\ ~sgh.dirty["seqs"]

\* C23: open's contract.  open_shm returns an error, and no handle, exactly
\* when the name was not bound at its open or the length it found was below
\* expected_size; otherwise it returns a handle; and no step of open_shm
\* changes which names exist or a byte of a named segment.
C23_OpenContract ==
    /\ [](\A q \in ShmProcs :
             (sp[q].pc = "done" /\ sp[q].op = "open")
             => /\ sp[q].ret = "Err"
                   <=> (~sgh.obs[q].existed \/ sgh.obs[q].actual < sp[q].size)
                /\ sp[q].ret = "Err" => hs[q][sp[q].name] = NoMap
                /\ sp[q].ret # "Err"
                   => (sp[q].ret = "Ok" /\ hs[q][sp[q].name].by = "open"))
    /\ [][\A q \in ShmProcs :
             ((\E n \in Names : \E size \in ShmSizes : OpenOpen(q, n, size))
               \/ OpenMetadata(q) \/ OpenMap(q))
             => SegmentsKept]_vars

\* open failed on a segment that exists, holds data and is too short
C23_Witness ==
    /\ sp["worker"].pc = "done"
    /\ sp["worker"].op = "open"
    /\ sp["worker"].ret = "Err"
    /\ sgh.obs["worker"].existed
    /\ shm.names["seqs"] # 0
    /\ Segment("seqs").size = HEADER_SIZE
    /\ Segment("seqs").cells # ZeroCells

\* C24: remove is idempotent.  remove_shm returns success whether or not
\* the name was bound, and the name is not bound when it returns; an open
\* that starts after a remove (and before any create) fails.
C24_RemoveIdempotent ==
    /\ \A q \in ShmProcs :
          (sp[q].pc = "done" /\ sp[q].op = "remove")
          => (sp[q].ret = "Ok" /\ shm.names[sp[q].name] = 0)
    /\ \A q \in ShmProcs :
          (sp[q].pc = "done" /\ sp[q].op = "open" /\ sgh.obs[q].afterRemove)
          => sp[q].ret = "Err"

\* a second remove in a row has returned and an open after it has failed
C24_Witness ==
    /\ sgh.removes["seqs"] = 2
    /\ sp["init"].pc = "idle"
    /\ sp["worker"].pc = "done"
    /\ sp["worker"].op = "open"
    /\ sgh.obs["worker"].afterRemove
    /\ sp["worker"].ret = "Err"

\* the headers and lengths PriceStore::open accepts
ValidHeaders(start) ==
    /\ start.seqs.size >= total_size(MAX_SYMBOLS, NUM_SOURCES)
    /\ start.data.size >= total_size(MAX_SYMBOLS, NUM_SOURCES)
    /\ start.seqs.cells[HdrMagic] = MAGIC_SEQS
    /\ start.seqs.cells[HdrVersion] = VERSION
    /\ start.data.cells[HdrMagic] = MAGIC_DATA
    /\ start.data.cells[HdrVersion] = VERSION

\* both segments of the pair a call names were completed by PriceStore::create
\* as the seqs and the data segment, in that order
CreatedPair(q) ==
    /\ pgh.start[q].made[ps[q].shm_seqs].made
    /\ pgh.start[q].made[ps[q].shm_data].made
    /\ pgh.start[q].made[ps[q].shm_seqs].field = "seqs"
    /\ pgh.start[q].made[ps[q].shm_data].field = "data"

OpenDone(q) == ps[q].pc = "done" /\ ps[q].op = "open"

\* C25: header validation.  PriceStore::open, run on two segments nobody
\* writes meanwhile, returns a PriceStore exactly when both exist with the
\* full length, the first starts with MAGIC_SEQS and VERSION and the second
\* with MAGIC_DATA and VERSION; otherwise (swapped names, zero-filled
\* segment, other version) it returns an error and holds no mapping.  It
\* succeeds on the pair PriceStore::create of this build has produced.
C25_HeaderValidation ==
    \A q \in ShmProcs :
        OpenDone(q)
        => /\ ps[q].ret \in {"Ok", "Err"}
           /\ ps[q].ret = "Err" => hs[q] = NoMaps
           /\ ps[q].ret = "Ok" => (hs[q]["seqs"] # NoMap /\ hs[q]["data"] # NoMap)
           /\ ~pgh.start[q].disturbed
              => (ps[q].ret = "Ok" <=> ValidHeaders(pgh.start[q]))
           /\ (/\ ~pgh.start[q].disturbed
               /\ CreatedPair(q)
               /\ pgh.start[q].made[ps[q].shm_seqs].build = ThisBuild
               /\ pgh.start[q].made[ps[q].shm_data].build = ThisBuild)
              => ps[q].ret = "Ok"

\* open was given the names of a pair made by this build in swapped order,
\* and failed
C25_Witness ==
    /\ OpenDone("worker")
    /\ ps["worker"].ret = "Err"
    /\ ~pgh.start["worker"].disturbed
    /\ ps["worker"].shm_seqs = "data"
    /\ \A n \in Names : pgh.start["worker"].made[n].made
    /\ \A n \in Names : pgh.start["worker"].made[n].build = ThisBuild

\* C26: capacity mismatch caught at open.  Whenever PriceStore::open
\* returns a PriceStore for a pair made by PriceStore::create, the creator's
\* MAX_SYMBOLS and NUM_SOURCES are the opener's, and the header's
\* num_symbols does not exceed the opener's MAX_SYMBOLS.
C26_CapacityMismatchCaught ==
    \A q \in ShmProcs :
        (OpenDone(q) /\ ps[q].ret = "Ok" /\ ~pgh.start[q].disturbed /\ CreatedPair(q))
        => \A n \in Names :
              /\ pgh.start[q].made[n].build.max_symbols = MAX_SYMBOLS
              /\ pgh.start[q].made[n].build.num_sources = NUM_SOURCES
              /\ pgh.start[q].made[n].num_symbols <= MAX_SYMBOLS

\* C28: the guarantee under release/acquire ordering only.  With the feed's
\* stores becoming visible in any order that its Release stores and its
\* Release fence allow, and the reader's loads in program order, a read that
\* returns Some returns the three fields of one single write to its slot
\* (or the initial all-zero triple).
C28_WeakOrderings ==
    \A r \in Readers :
        (Returned(r) /\ rd[r].result.some)
        => rd[r].result.snap \in gh.written[RSlot(r)]

\* the value of a non-NaN f64 input is positive
Positive(x) ==
    \/ x = Infinity
    \/ (x.cls = "fin" /\ ~x.neg /\ x.mag > 0)

\* C29: is_valid.  The call returns true exactly when best_bid > 0,
\* best_ask > 0 and best_bid <= best_ask: a zero bid, a zero ask and a
\* crossed book are invalid, bid = ask > 0 is valid (and so is no snapshot
\* with a NaN or a negative price); updated_at plays no part.
C29_IsValid ==
    iv.applied =>
        LET b == iv.snapshot.best_bid
            a == iv.snapshot.best_ask
        IN /\ iv.ret <=> (/\ Positive(b)
                          /\ Positive(a)
                          /\ (a = Infinity \/ (b # Infinity /\ b.mag <= a.mag)))
           /\ (b = Zero \/ a = Zero) => ~iv.ret
           /\ (Positive(b) /\ a = b) => iv.ret

\* is_valid returned true on a snapshot with bid = ask > 0
C29_Witness ==
    /\ iv.applied
    /\ iv.ret
    /\ iv.snapshot.best_bid = iv.snapshot.best_ask
    /\ iv.snapshot.best_bid = F64("fin", FALSE, MaxMag)

\* C30: sequence parity.  With the single writer of Spec, whose every write
\* runs to completion, a slot's sequence counter is odd exactly while a
\* seqlock_write on that slot is between its first and its final sequence
\* store, and even in every other reachable state.
C30_SeqParity ==
    \A o \in SlotOffsets :
        IsOdd(seqs[o])
        <=> (o = WOff /\ w.pc \in {"write_bid", "write_ask", "write_ts", "store_even"})

\* the second write to a slot is between its two sequence stores
C30_Witness ==
    /\ w.pc = "write_ts"
    /\ seqs[WOff] = 3

\* the steps of a call that is under way, by the process that made it
WriteOwnStep ==
    WriteStoreOdd \/ WriteBid \/ WriteAsk \/ WriteUpdatedAt \/ WriteStoreEven
PushOwnStep == PushLoadCons \/ PushWriteEntry \/ PushStoreProd \/ PushReturn
PopOwnStep == PopLoadProd \/ PopReadEntry \/ PopStoreCons \/ PopReturn
ScanOwnStep == HasUpdatesLoad \/ HasUpdatesReturn

\* how far a call has got: every own step takes it further, or ends it
WriteRank ==
    "store_odd" :> 1 @@ "write_bid" :> 2 @@ "write_ask" :> 3 @@ "write_ts" :> 4
    @@ "store_even" :> 5
PushRank == "load_cons" :> 1 @@ "write" :> 2 @@ "store" :> 3 @@ "done" :> 4
PopRank == "load_prod" :> 1 @@ "read" :> 2 @@ "store" :> 3 @@ "done" :> 4
ScanRank(st) == IF st.pc = "done" THEN WORDS_PER_BLOCK + 1 ELSE st.w

Further(old, new, rank) ==
    (old.pc # "idle" /\ new # old)
    => (new.pc = "idle" \/ rank[new.pc] > rank[old.pc])

\* C27: non-blocking.  In every reachable state -- wherever the peer has
\* got to, and it may stay there for ever -- the next step of a seqlock_write,
\* push, pop or has_updates that is under way can be taken, and set and
\* swap_word, a single atomic step each, can be taken with any argument;
\* every step of a call takes it further along a fixed finite sequence of
\* positions (5 for seqlock_write, 4 for push and pop, one load per word of
\* the block for has_updates), so the call ends after that many own steps.
C27_NonBlocking ==
    /\ [](w.pc # "idle" => ENABLED WriteOwnStep)
    /\ [](p.pc # "idle" => ENABLED PushOwnStep)
    /\ [](c.pc # "idle" => ENABLED PopOwnStep)
    /\ [](hu.pc # "idle" => ENABLED ScanOwnStep)
    /\ [](\A so \in BmSources :
             /\ \A sy \in ScanSymbols : ENABLED Set(so, sy)
             /\ \A wi \in ScanWords : ENABLED SwapWord(so, wi))
    /\ [][Further(w, w', WriteRank)]_vars
    /\ [][Further(p, p', PushRank)]_vars
    /\ [][Further(c, c', PopRank)]_vars
    /\ [][(hu.pc # "idle" /\ hu' # hu /\ hu'.pc # "idle"
           /\ hu'.disturbed = hu.disturbed)
          => ScanRank(hu') > ScanRank(hu)]_vars
    /\ [](hu.pc # "idle" => ScanRank(hu) <= WORDS_PER_BLOCK + 1)

\* a push has found the buffer full while the consumer stands in the middle
\* of a pop, and has returned all the same
C27_Witness ==
    /\ p.pc = "done"
    /\ ~p.result
    /\ c.pc = "store"

\* the writes of a slot that have run to completion: the calls made on it,
\* less the one that is under way
CompletedWrites(sl) ==
    Cardinality(gh.written[sl]) - 1
    - (IF w.pc /= "idle" /\ <<w.symbol_id, w.source_id>> = sl THEN 1 ELSE 0)

\* C31: a slot's sequence counter counts its writes.  In every reachable
\* state a slot's counter is twice the number of completed writes to it, plus
\* one exactly while a write to it is between its two sequence stores
\* (current + 1, then current + 2); the steps of readers are among the steps
\* that lead to these states, so no read changes the counter.
C31_CounterCountsWrites ==
    \A sl \in Slots :
        seqs[slot_offset(sl[1], sl[2])]
        = 2 * CompletedWrites(sl)
          + (IF <<w.symbol_id, w.source_id>> = sl
                /\ w.pc \in {"write_bid", "write_ask", "write_ts", "store_even"}
             THEN 1 ELSE 0)

\* two writes to a slot have completed, a read of that slot has returned in
\* the meantime, and the counter stands at 4
C31_Witness ==
    \E r \in Readers :
        /\ Returned(r)
        /\ w.pc = "idle"
        /\ CompletedWrites(RSlot(r)) = 2
        /\ seqs[ROff(r)] = 4

\* C32: slot addressing.  For in-range slots the offset is at least the
\* header size, the entry ends within the segment of total_size bytes, and
\* two different slots get offsets at least one entry apart, so that no two
\* entries overlap each other or the header; the offset is the formula
\* 64 + (symbol_id * NUM_SOURCES + source_id) * 64, and the pair is
\* recovered from it, so the offset is injective in the pair.
C32_SlotAddressing ==
    addr.applied =>
        /\ addr.off_a = 64 + (addr.a[1] * NUM_SOURCES + addr.a[2]) * 64
        /\ addr.off_a >= HEADER_SIZE
        /\ addr.off_a + ENTRY_SIZE <= total_size(MAX_SYMBOLS, NUM_SOURCES)
        /\ addr.off_a + 64 <= 64 + MAX_SYMBOLS * NUM_SOURCES * 64
        /\ <<((addr.off_a - 64) \div 64) \div NUM_SOURCES,
              ((addr.off_a - 64) \div 64) % NUM_SOURCES>> = addr.a
        /\ addr.a /= addr.b =>
                \/ addr.off_a + ENTRY_SIZE <= addr.off_b
                \/ addr.off_b + ENTRY_SIZE <= addr.off_a

\* the offsets of the last slot of the table and of the last slot of the
\* symbol before it have been computed
C32_Witness ==
    /\ addr.applied
    /\ addr.a = <<MAX_SYMBOLS - 2, NUM_SOURCES - 1>>
    /\ addr.b = <<MAX_SYMBOLS - 1, NUM_SOURCES - 1>>
    /\ addr.off_b + ENTRY_SIZE = total_size(MAX_SYMBOLS, NUM_SOURCES)

\* the entries of slot offset o, in either segment
SlotEntry(o) == <<seqs[o], data[o]>>

\* what a step of a write call changes: the entries of the call's slot
WriteFrame ==
    /\ hdr' = hdr
    /\ \A o \in SlotOffsets :
            SlotEntry(o)' /= SlotEntry(o) =>
                \/ w.pc /= "idle" /\ w' /= w /\ o = WOff
                \/ w2.pc /= "idle" /\ w2' /= w2 /\ o = W2Off

\* what a slot holds once its feed's writes have returned: that feed's last
\* snapshot and twice the number of its writes, whatever the other feed did
OwnWritesOnly ==
    /\ w.pc = "idle" =>
            \A sl \in Feed1Slots :
                /\ data[slot_offset(sl[1], sl[2])] = gh.last[sl]
                /\ seqs[slot_offset(sl[1], sl[2])] = 2 * CompletedWrites(sl)
    /\ w2.pc = "idle" =>
            \A sl \in Feed2Slots :
                /\ data[slot_offset(sl[1], sl[2])] = gh2.last
                /\ seqs[slot_offset(sl[1], sl[2])] = 2 * gh2.n
    /\ \A h \in DOMAIN hdr : \A cell \in HeaderFields :
            HEADER_SIZE > cell /\ WOff >= HEADER_SIZE /\ W2Off >= HEADER_SIZE

\* C33: the frame of PriceStore::write.  Every step of a write changes only
\* the sequence counter and the data entry of the call's own slot: every
\* other slot's entries and both headers (magic, version, num_symbols) are
\* left as they were, also while another feed is inside a write to a
\* different slot; a slot therefore holds what its own feed wrote.
C33_WriteFrame == []OwnWritesOnly /\ [][WriteFrame]_vars

\* both feeds are between their sequence stores, each on its own slot, after
\* the first feed has completed a write to its other slot
C33_Witness ==
    /\ w.pc = "write_ask"
    /\ w2.pc = "write_ts"
    /\ WOff /= W2Off
    /\ \E sl \in Feed1Slots : gh.last[sl] /= ZeroSnap

\* the two positions stay within one capacity of each other
PositionsInRange ==
    /\ ring.producer - ring.consumer >= 0
    /\ ring.producer - ring.consumer <= CAPACITY

\* a step that changes a position is the store of a successful call of the
\* role that owns it, and adds exactly 1
PositionsOwned ==
    /\ ring.producer' /= ring.producer =>
            /\ ring.producer' = ring.producer + 1
            /\ p.pc = "store" /\ p'.pc = "done" /\ p'.result
            /\ c' = c /\ ring.consumer' = ring.consumer
    /\ ring.consumer' /= ring.consumer =>
            /\ ring.consumer' = ring.consumer + 1
            /\ c.pc = "store" /\ c'.pc = "done" /\ c'.result.some
            /\ p' = p /\ ring.producer' = ring.producer
    /\ p'.pc = "done" /\ p.pc /= "done" /\ p'.result =>
            ring.producer' = ring.producer + 1
    /\ c'.pc = "done" /\ c.pc /= "done" /\ c'.result.some =>
            ring.consumer' = ring.consumer + 1

\* C35: ring buffer positions.  With one producer and one consumer, in every
\* reachable state 0 <= producer - consumer <= CAPACITY; a position changes
\* only by +1, once per successful push (producer position) or successful
\* pop (consumer position), and only in a step of the role that owns it.
C35_Positions == []PositionsInRange /\ [][PositionsOwned]_vars

\* the buffer is full after the positions have gone once round the ring
C35_Witness ==
    /\ ring.consumer >= CAPACITY
    /\ ring.producer - ring.consumer = CAPACITY

\* the positions whose events are pushed and not yet popped
PendingPositions == ring.consumer .. (ring.producer - 1)

\* C37: ring slot exclusion.  When the producer is about to write a slot, the
\* slot holds no event that is pushed and not yet popped, and the consumer is
\* not at its read of that slot; when the consumer is about to read a slot,
\* the producer is not at its write of it.
C37_SlotExclusion ==
    /\ p.pc = "write" =>
            /\ \A k \in PendingPositions :
                    entry_offset(k) /= entry_offset(p.prod_seq)
            /\ ~(c.pc = "read"
                 /\ entry_offset(c.cons_seq) = entry_offset(p.prod_seq))
    /\ c.pc = "read" =>
            /\ c.cons_seq \in PendingPositions
            /\ ~(p.pc = "write"
                 /\ entry_offset(p.prod_seq) = entry_offset(c.cons_seq))

\* the slot write of a push and the slot read of a pop are both due, on
\* different slots of a ring that has wrapped round
C37_Witness ==
    /\ p.pc = "write"
    /\ c.pc = "read"
    /\ p.prod_seq >= CAPACITY
    /\ entry_offset(p.prod_seq) /= entry_offset(c.cons_seq)

\* the buffer was empty at some instant of the len call that is returning
EmptyDuringCall == ln.empty \/ rgh.drained /= ln.drained

\* C36 (as stated): RingBuffer::len called by any process while the producer
\* pushes and the consumer pops returns a value between 0 and CAPACITY, the
\* subtraction of its two separately loaded positions never going negative,
\* and is_empty is true only if the buffer was empty at some instant during
\* the call.
C36_LenInRange ==
    /\ ln.pc /= "panicked"
    /\ ln.pc = "done" =>
            /\ ln.result.kind = "value"
            /\ ln.result.n >= 0
            /\ ln.result.n <= CAPACITY
            /\ is_empty(ln.result) => EmptyDuringCall

\* the is_empty half of C36 on its own: a call of is_empty that returns true
\* although the buffer held an event at every instant of the call
C36_IsEmptyOnlyIfEmpty ==
    ln.pc = "done" /\ is_empty(ln.result) => EmptyDuringCall

\* what a call made in this state and run on its own would return
PushWouldFail == ring.producer - ring.consumer >= CAPACITY
PopWouldFail == ring.consumer >= ring.producer

\* C38: ring buffer progress.  With a producer and a consumer that call
\* again and again, under weak fairness of both: the k-th event whose push
\* returned true is eventually the k-th event returned by a pop; a push that
\* found the buffer full is eventually followed by a push that returns true;
\* and in no reachable state is the buffer both full for push and empty for
\* pop.
C38_Progress ==
    /\ \A k \in 1..MaxPushCalls :
            (Len(rgh.pushed) >= k)
            ~> (Len(rgh.popped) >= k /\ rgh.popped[k] = rgh.pushed[k])
    /\ (p.pc = "done" /\ ~p.result) ~> (p.pc = "done" /\ p.result)
    /\ [](~(PushWouldFail /\ PopWouldFail))

\* a push has found the buffer full after the ring wrapped round, while every
\* earlier event but the pending ones has been popped
C38_Witness ==
    /\ p.pc = "done"
    /\ ~p.result
    /\ Len(rgh.popped) >= 1
    /\ Len(rgh.pushed) - Len(rgh.popped) = CAPACITY

\* C39: SeqLock freshness.  Writes to a slot are numbered by updated_at in
\* the order the feed makes them.  A read that returns Some returns a
\* snapshot written to its slot that is not older than the last write that
\* had completed when the read began, and whose own write has completed by
\* the time the read returns; so of two successive successful reads of a
\* slot the second never returns an older snapshot than the first.
C39_Freshness ==
    \A r \in Readers :
        (Returned(r) /\ rd[r].result.some) =>
            /\ rd[r].result.snap \in gh.written[RSlot(r)]
            /\ rd[r].result.snap.updated_at >= gh.r[r].expect.updated_at
            /\ rd[r].result.snap.updated_at <= gh.last[RSlot(r)].updated_at

\* a read that began after the first write to its slot had completed was
\* overlapped by the second write and returns the second snapshot
C39_Witness ==
    \E r \in Readers :
        /\ Returned(r) /\ rd[r].result.some
        /\ gh.r[r].disturbed
        /\ gh.r[r].expect /= ZeroSnap
        /\ rd[r].result.snap.updated_at > gh.r[r].expect.updated_at

\* a successful read of slot sl whose result the reader holds
ReadResults(sl) ==
    { rd[r].result.snap : r \in { x \in Readers :
        /\ rd[x].pc = "done" /\ rd[x].result.some
        /\ <<rd[x].symbol_id, rd[x].source_id>> = sl } }

\* a step is a read_seq call: what it may change, what it returns, and how
\* its value stands to that of the call before it on the same slot; `quiet`
\* says what an equal even value tells about the writes in between
ReadSeqStep(quiet) ==
    sq' /= sq =>
        /\ UNCHANGED <<seqs, data, w, nwrites, rd>>
        /\ sq'.value = seqs[slot_offset(sq'.slot[1], sq'.slot[2])]
        /\ (sq.made /\ sq'.slot = sq.slot) =>
                /\ sq'.value >= sq.value
                /\ sq'.again =>
                        /\ quiet
                        /\ sq'.last = sq.last
                        /\ sq'.between => ReadResults(sq.slot) = {sq.last}

\* C34 (as stated): successive read_seq values of a slot never decrease,
\* read_seq changes nothing, and two calls that return the same even value
\* have no write to the slot started between them, so that successful reads
\* made between them return the same snapshot.
C34_Original == [][ReadSeqStep(sq'.started = sq.started)]_vars

\* C34 (as amended): successive read_seq values of a slot never decrease,
\* read_seq changes nothing, and two calls that return the same even value
\* have no store into the slot's counter or data between them (a write may
\* have been called and have loaded the counter), so that successful reads
\* made between them return the same snapshot, the one the slot held at the
\* first call.
C34_ReadSeqStaleness == [][ReadSeqStep(sq'.stores = sq.stores)]_vars

\* the second of two read_seq calls has returned 2 again, after a read made
\* between them returned Some and a write was called
C34_Witness ==
    /\ sq.again
    /\ sq.between
    /\ sq.value = 2
    /\ w.pc = "store_odd"

\* the feed has stopped inside a write to slot sl
StoppedOn(sl) == w.pc = "stopped" /\ <<w.symbol_id, w.source_id>> = sl

\* C40: writer stopped mid-write.  Once the feed has stopped between its two
\* sequence stores on a slot: a read of that slot that finds the counter odd
\* at its call and is overlapped by no writer step returns None, after its
\* MAX_READ_RETRIES attempts, each of which ended at the odd counter, and so
\* never a partly written snapshot; read_seq of that slot returns the odd
\* value current + 1, at every call; and a read of another slot that is
\* overlapped by no writer step returns, at its first attempt, Some of the
\* snapshot last written to that slot before the read was called.
C40_WriterStopped ==
    /\ \A r \in Readers :
            (Returned(r) /\ StoppedOn(RSlot(r))
             /\ ~gh.r[r].startEven /\ ~gh.r[r].disturbed) =>
                /\ rd[r].result = None
                /\ rd[r].i = MAX_READ_RETRIES
                /\ gh.r[r].oddAttempts = MAX_READ_RETRIES
    /\ \A r \in Readers :
            (Returned(r) /\ w.pc = "stopped" /\ ~StoppedOn(RSlot(r))
             /\ gh.r[r].quiet /\ ~gh.r[r].disturbed) =>
                /\ rd[r].result = Some(gh.r[r].expect)
                /\ rd[r].i = 0
    /\ (sq.made /\ StoppedOn(sq.slot)) =>
            /\ sq.value = w.current + 1
            /\ IsOdd(sq.value)
            /\ sq.value = seqs[WOff]
    /\ w.pc = "stopped" => IsOdd(seqs[WOff])

\* after the feed stopped inside its second write, with the bid of the new
\* snapshot stored and the ask not, read_seq has returned the odd value and
\* a read of the slot has given up
C40_Witness ==
    \E r \in Readers :
        /\ Returned(r) /\ StoppedOn(RSlot(r))
        /\ rd[r].result = None
        /\ sq.made /\ sq.slot = RSlot(r) /\ sq.value = 3
        /\ data[WOff].best_bid /= data[WOff].best_ask - 1

====
